---------------------------- MODULE Spec2Model ----------------------------
(***************************************************************************)
(* Guided multi-pose face enrollment: the GuidedFaceCapture state machine  *)
(* of face_capture.py, with its quality gates and pose validator; the      *)
(* tracking FaceDetector of camera.py; the streams of app.py that drive    *)
(* them; and the class sessions and attendance rows of db_helper.py with   *)
(* the shared Camera the session controller starts and stops.              *)
(*                                                                         *)
(* A frame is modelled by what the code reads from it: the mean grayscale  *)
(* brightness, the Laplacian variance, the frame size, and the answers of  *)
(* the face_recognition backend for it (face locations, landmarks,         *)
(* encodings).  Real-valued thresholds are compared by cross               *)
(* multiplication on integers.                                             *)
(***************************************************************************)
EXTENDS Integers, Sequences, FiniteSets, TLC

VARIABLES
    frames_per_pose,      \* self.frames_per_pose
    current_stage_index,  \* self.current_stage_index
    encodings,            \* self.encodings
    completed,            \* self._completed
    stages,               \* self.stages[i]['frames_captured'], i = 0..NumStages-1
    lastCall,             \* the public method called last
    arg,                  \* the argument it was called with
    ret,                  \* what that call returned
    detectors,            \* the FaceDetector instances, by the stream owning them
    fed,                  \* the frames each stream passed to detect, in order
    enrollment_captures,  \* _enrollment_captures: user id -> capture session
    captures,             \* the GuidedFaceCapture objects the controller created
    feeds,                \* the capture session each enrollment stream holds
    class_sessions,       \* the rows of the table class_sessions, by id
    attendance,           \* the rows of the table attendance, by id
    now,                  \* datetime.now()
    video_feeds,          \* the user of each running recognition stream
    camera                \* the global Camera instance of get_camera()

captureVars == <<frames_per_pose, current_stage_index, encodings, completed, stages>>

detectorVars == <<detectors, fed>>

enrollmentVars == <<enrollment_captures, captures, feeds>>

sessionVars == <<class_sessions, attendance, now, video_feeds>>

vars == <<frames_per_pose, current_stage_index, encodings, completed, stages,
          lastCall, arg, ret, detectors, fed, enrollment_captures, captures,
          feeds, class_sessions, attendance, now, video_feeds, camera>>

-----------------------------------------------------------------------------
(* Bounds of the model.                                                    *)

\* frames_per_pose ranges over 1..MaxFramesPerPose in Spec,
\* over 1..MaxFramesPerPoseApi in SpecApi, over 1..MaxFramesPerPoseAgg in
\* SpecAgg
MaxFramesPerPose == 3
MaxFramesPerPoseApi == 1
MaxFramesPerPoseAgg == 1

\* add_encoding is called directly only while fewer than this many
\* encodings are stored
MaxInjected == 1

\* in SpecAgg the stream feeds frames only while fewer than this many
\* encodings are stored
MaxEncodings == 8

\* _calculate_iou is applied to the boxes <<x, y, w, h>> with
\* x, y in 0 .. MaxCoord and w, h in 0 .. MaxSide
MaxCoord == 2
MaxSide == 2

\* a FaceDetector has skip_frames in 1 .. MaxSkipFrames and
\* smoothing_window in 1 .. MaxWindow; a stream calls detect at most
\* MaxCalls times
MaxSkipFrames == 3
MaxWindow == 3
MaxCalls == 5

\* a recognition stream calls detect at most MaxStreamCalls times
MaxStreamCalls == 2

\* the controller creates at most MaxCaptures capture sessions, and an
\* enrollment stream feeds a session only while it holds fewer than
\* MaxEnrollEncodings encodings
MaxCaptures == 2
MaxEnrollEncodings == 2

\* _smooth_detections is applied to histories of at most MaxHistory frames
MaxHistory == 3

\* at most MaxSessions class sessions (MaxRecordedSessions in
\* SpecAttendance) and MaxAttendance attendance rows are ever inserted, and
\* datetime.now() is called at most MaxTime times
MaxSessions == 3
MaxRecordedSessions == 2
MaxAttendance == 2
MaxTime == 3

-----------------------------------------------------------------------------
(* Program constants.                                                      *)

STAGES ==
    << [name |-> "center",  instruction |-> "Look straight at the camera"],
       [name |-> "left",    instruction |-> "Turn your head slightly to the left"],
       [name |-> "right",   instruction |-> "Turn your head slightly to the right"],
       [name |-> "up",      instruction |-> "Tilt your chin up slightly"],
       [name |-> "down",    instruction |-> "Look slightly downward"],
       [name |-> "smile",   instruction |-> "Give a natural smile"],
       [name |-> "neutral", instruction |-> "Relax your face"] >>

NumStages == Len(STAGES)

\* gen_frames: FaceDetector(model="hog", scale=0.5, skip_frames=1,
\* smoothing_window=5)
STREAM_SKIP_FRAMES == 1
STREAM_SMOOTHING_WINDOW == 5

\* the controller's GuidedFaceCapture(frames_per_pose=3)
ENROLLMENT_FRAMES_PER_POSE == 3

MIN_BRIGHTNESS == 40
MAX_BRIGHTNESS == 220
\* MIN_FACE_RATIO = 0.15, in hundredths
MIN_FACE_RATIO == 15
\* BLUR_THRESHOLD = 5.0
BLUR_THRESHOLD == 5
\* thresholds of validate_pose, in hundredths
YAW_THRESHOLD == 20
PITCH_UP_THRESHOLD == 45
PITCH_DOWN_THRESHOLD == 50
\* the left/right dead zone 0.03 and the smile ratio 0.38, in hundredths
YAW_TURN == 3
SMILE_RATIO == 38

-----------------------------------------------------------------------------
(* Arithmetic helpers: comparisons of real quantities on integers.         *)

Abs(n) == IF n < 0 THEN -n ELSE n

\* a > b * sqrt(d2), for integers a, b and d2 >= 0
GtRoot(a, b, d2) ==
    IF b >= 0 THEN a > 0 /\ a * a > b * b * d2
              ELSE a >= 0 \/ a * a < b * b * d2

\* n / d > t / 100, for d # 0 (Python's float division keeps the sign of d)
RatioGt(n, d, t) == IF d > 0 THEN 100 * n > t * d ELSE 100 * n < t * d

\* n / d < t / 100, for d # 0
RatioLt(n, d, t) == IF d > 0 THEN 100 * n < t * d ELSE 100 * n > t * d

RECURSIVE Gcd(_, _)
Gcd(a, b) == IF b = 0 THEN a ELSE Gcd(b, a % b)

\* the exact quotient n / d (d > 0) as a reduced fraction
Fraction(n, d) ==
    LET g == Gcd(Abs(n), d)
    IN  [num |-> n \div g, den |-> d \div g]

RECURSIVE SumComponent(_, _)
SumComponent(vs, c) ==
    IF vs = << >> THEN 0 ELSE vs[1][c] + SumComponent(Tail(vs), c)

RECURSIVE SumStages(_, _)
SumStages(st, n) == IF n = 0 THEN 0 ELSE st[n - 1] + SumStages(st, n - 1)

-----------------------------------------------------------------------------
(* Quality gates.                                                          *)

\* analyze_lighting: frame.brightness is np.mean(gray)
analyze_lighting(frame) ==
    IF frame.brightness < MIN_BRIGHTNESS
      THEN [is_adequate |-> FALSE, message |-> "Too dark - please improve lighting"]
    ELSE IF frame.brightness > MAX_BRIGHTNESS
      THEN [is_adequate |-> FALSE,
            message |-> "Too bright - reduce lighting or move away from window"]
    ELSE [is_adequate |-> TRUE, message |-> "Lighting is good"]

\* validate_face_position testing the size of the box after its position
validate_face_position_SizeLast(face_box, frame_width, frame_height) ==
    LET x == face_box[1]
        y == face_box[2]
        w == face_box[3]
        h == face_box[4]
    IN  IF 5 * (2 * x + w) < 2 * frame_width
          THEN [is_valid |-> FALSE, message |-> "Move to the right"]
        ELSE IF 5 * (2 * x + w) > 8 * frame_width
          THEN [is_valid |-> FALSE, message |-> "Move to the left"]
        ELSE IF 5 * (2 * y + h) < 2 * frame_height
          THEN [is_valid |-> FALSE, message |-> "Move down"]
        ELSE IF 5 * (2 * y + h) > 8 * frame_height
          THEN [is_valid |-> FALSE, message |-> "Move up"]
        ELSE IF 100 * w < MIN_FACE_RATIO * frame_width
          THEN [is_valid |-> FALSE, message |-> "Move closer to the camera"]
        ELSE [is_valid |-> TRUE, message |-> "Position is good"]

\* validate_face_position: face_box = <<x, y, w, h>>.  With
\* face_center = x + w/2 and the bounds 0.2 and 0.8 of the frame size,
\* center < 0.2 * size  <=>  5 * (2x + w) < 2 * size.
validate_face_position(face_box, frame_width, frame_height) ==
    LET x == face_box[1]
        y == face_box[2]
        w == face_box[3]
        h == face_box[4]
    IN  IF 100 * w < MIN_FACE_RATIO * frame_width
          THEN [is_valid |-> FALSE, message |-> "Move closer to the camera"]
        ELSE IF 5 * (2 * x + w) < 2 * frame_width
          THEN [is_valid |-> FALSE, message |-> "Move to the right"]
        ELSE IF 5 * (2 * x + w) > 8 * frame_width
          THEN [is_valid |-> FALSE, message |-> "Move to the left"]
        ELSE IF 5 * (2 * y + h) < 2 * frame_height
          THEN [is_valid |-> FALSE, message |-> "Move down"]
        ELSE IF 5 * (2 * y + h) > 8 * frame_height
          THEN [is_valid |-> FALSE, message |-> "Move up"]
        ELSE [is_valid |-> TRUE, message |-> "Position is good"]

\* check_blur: frame.laplacian_var is cv2.Laplacian(gray).var()
check_blur(frame) ==
    [is_sharp |-> frame.laplacian_var >= BLUR_THRESHOLD,
     message  |-> IF frame.laplacian_var >= BLUR_THRESHOLD
                    THEN "Image is sharp"
                    ELSE "Image is blurry - hold still"]

-----------------------------------------------------------------------------
(* Pose validator.  A landmark set gives each point group by its mean      *)
(* point <<x, y>> (left_eye, right_eye, nose_tip, chin) and the points the *)
(* code indexes: top_lip[0], top_lip[6], chin[0], chin[16].                *)
(*   yaw_ratio   = (nose_x - (lx + rx)/2) / eye_dist                       *)
(*   pitch_ratio = (nose_y - eye_y) / (chin_y - eye_y)                     *)
(* are compared with the thresholds after doubling both sides.             *)

validate_pose(landmarks, stage_name) ==
    LET lx == landmarks.left_eye[1]
        ly == landmarks.left_eye[2]
        rx == landmarks.right_eye[1]
        ry == landmarks.right_eye[2]
        \* 2 * (nose_x - face_center_x)
        yaw2 == 2 * landmarks.nose_tip[1] - (lx + rx)
        eye_d2 == (rx - lx) * (rx - lx) + (ry - ly) * (ry - ly)
        \* 2 * (nose_y - eye_y) and 2 * face_height
        pitch2 == 2 * landmarks.nose_tip[2] - (ly + ry)
        height2 == 2 * landmarks.chin[2] - (ly + ry)
        mouth_d2 == (landmarks.mouth_right[1] - landmarks.mouth_left[1])
                      * (landmarks.mouth_right[1] - landmarks.mouth_left[1])
                    + (landmarks.mouth_right[2] - landmarks.mouth_left[2])
                      * (landmarks.mouth_right[2] - landmarks.mouth_left[2])
        jaw_d2 == (landmarks.jaw_right[1] - landmarks.jaw_left[1])
                      * (landmarks.jaw_right[1] - landmarks.jaw_left[1])
                  + (landmarks.jaw_right[2] - landmarks.jaw_left[2])
                      * (landmarks.jaw_right[2] - landmarks.jaw_left[2])
    IN  IF stage_name = "center" \/ stage_name = "neutral" THEN
            \* abs(yaw_ratio) > 0.20
            IF GtRoot(50 * Abs(yaw2), YAW_THRESHOLD, eye_d2)
              THEN [is_valid |-> FALSE,
                    message |-> "Face straight ahead (looking "
                                \o (IF yaw2 > 0 THEN "left" ELSE "right") \o ")"]
              ELSE [is_valid |-> TRUE, message |-> "Good center pose"]
        ELSE IF stage_name = "left" THEN
            \* yaw_ratio > -0.03
            IF GtRoot(50 * yaw2, -YAW_TURN, eye_d2)
              THEN [is_valid |-> FALSE, message |-> "Turn head slightly left"]
              ELSE [is_valid |-> TRUE, message |-> "Good left pose"]
        ELSE IF stage_name = "right" THEN
            \* yaw_ratio < 0.03
            IF GtRoot(-50 * yaw2, -YAW_TURN, eye_d2)
              THEN [is_valid |-> FALSE, message |-> "Turn head slightly right"]
              ELSE [is_valid |-> TRUE, message |-> "Good right pose"]
        ELSE IF stage_name = "up" THEN
            IF RatioGt(pitch2, height2, PITCH_UP_THRESHOLD)
              THEN [is_valid |-> FALSE, message |-> "Tilt chin up slightly"]
              ELSE [is_valid |-> TRUE, message |-> "Good up pose"]
        ELSE IF stage_name = "down" THEN
            IF RatioLt(pitch2, height2, PITCH_DOWN_THRESHOLD)
              THEN [is_valid |-> FALSE, message |-> "Look down slightly"]
              ELSE [is_valid |-> TRUE, message |-> "Good down pose"]
        ELSE IF stage_name = "smile" THEN
            \* mouth_width / jaw_width < 0.38
            IF 10000 * mouth_d2 < SMILE_RATIO * SMILE_RATIO * jaw_d2
              THEN [is_valid |-> FALSE, message |-> "Please smile!"]
              ELSE [is_valid |-> TRUE, message |-> "Nice smile!"]
        ELSE [is_valid |-> TRUE, message |-> "Pose valid"]

-----------------------------------------------------------------------------
(* GuidedFaceCapture.  A session value `self` is the record of the         *)
(* object's fields; a method is an operator from the fields before the     *)
(* call to the fields after it and the value returned.  stages[i] is       *)
(* self.stages[i]['frames_captured'] for the 0-based stage index i.        *)

StageIndexes == 0 .. NumStages - 1

\* __init__
NewSession(k) ==
    [frames_per_pose     |-> k,
     current_stage_index |-> 0,
     encodings           |-> << >>,
     completed           |-> FALSE,
     stages              |-> [i \in StageIndexes |-> 0]]

\* get_current_stage, as the index of the stage dict it returns
get_current_stage(self) ==
    IF self.current_stage_index < NumStages
      THEN self.current_stage_index
      ELSE NumStages - 1

get_current_instruction(self) == STAGES[get_current_stage(self) + 1].instruction

\* all stages have the required frames (the loop of is_complete)
AllStagesCaptured(self) ==
    \A i \in StageIndexes : ~ (self.stages[i] < self.frames_per_pose)

\* is_complete: returns the flag and may set self._completed
is_complete(self) ==
    IF self.completed THEN [self |-> self, value |-> TRUE]
    ELSE IF ~ AllStagesCaptured(self) THEN [self |-> self, value |-> FALSE]
    ELSE [self |-> [self EXCEPT !.completed = TRUE], value |-> TRUE]

\* advance_stage incrementing the index at the last stage too
advance_stage_PastLast(self) ==
    IF self.current_stage_index < NumStages
      THEN [self EXCEPT !.current_stage_index = @ + 1]
      ELSE [self EXCEPT !.completed = TRUE]

\* advance_stage completing the session one stage early
advance_stage_OneEarly(self) ==
    IF self.current_stage_index < NumStages - 2
      THEN [self EXCEPT !.current_stage_index = @ + 1]
      ELSE [self EXCEPT !.completed = TRUE]

advance_stage(self) ==
    IF self.current_stage_index < NumStages - 1
      THEN [self EXCEPT !.current_stage_index = @ + 1]
      ELSE [self EXCEPT !.completed = TRUE]

add_encoding(self, encoding) ==
    [self EXCEPT !.encodings = Append(@, encoding)]

\* pickle.dumps of a value: a byte string that pickle.loads maps back to it
PickleDumps(value) == [bytes |-> "pickle", value |-> value]

EmptyBytes == [bytes |-> "empty"]

\* pickle.loads of a pickled value
PickleLoads(bytes) == bytes.value

\* the mean rounded down to an integer
MeanAxis0Floor(vectors) ==
    [c \in DOMAIN vectors[1] |->
        Fraction(SumComponent(vectors, c) \div Len(vectors), 1)]

\* np.mean(vectors, axis=0): the component-wise mean, as exact fractions
MeanAxis0(vectors) ==
    [c \in DOMAIN vectors[1] |->
        Fraction(SumComponent(vectors, c), Len(vectors))]

\* get_aggregated_encoding refusing a session that is not completed
get_aggregated_encoding_Guarded(self) ==
    IF ~ self.completed
      THEN [error |-> "capture not complete"]
      ELSE IF self.encodings = << >>
        THEN EmptyBytes
        ELSE PickleDumps(MeanAxis0(self.encodings))

get_aggregated_encoding(self) ==
    IF self.encodings = << >>
      THEN EmptyBytes
      ELSE PickleDumps(MeanAxis0(self.encodings))

\* reset leaving the stage counters as they are
reset_KeepsCounters(self) ==
    [self EXCEPT !.current_stage_index = 0,
                 !.encodings = << >>,
                 !.completed = FALSE]

\* reset leaving the stored encodings as they are
reset_KeepsEncodings(self) ==
    [self EXCEPT !.current_stage_index = 0,
                 !.completed = FALSE,
                 !.stages = [i \in StageIndexes |-> 0]]

reset(self) ==
    [self EXCEPT !.current_stage_index = 0,
                 !.encodings = << >>,
                 !.completed = FALSE,
                 !.stages = [i \in StageIndexes |-> 0]]

\* the 'progress' text "captured/needed", as the pair of its two numbers
Progress(self) ==
    << SumStages(self.stages, NumStages), NumStages * self.frames_per_pose >>

\* face_box = (left, top, right - left, bottom - top) of a location
\* (top, right, bottom, left)
FaceBox(loc) == << loc[4], loc[1], loc[2] - loc[4], loc[3] - loc[1] >>

\* CaptureEncoding advancing the stage on every captured frame
CaptureEncodingPerFrame(self, encoding) ==
    LET added == add_encoding(self, encoding)
        cur == get_current_stage(added)
        counted == [added EXCEPT !.stages[cur] = @ + 1]
    IN  advance_stage(counted)

\* CaptureEncoding advancing only once the stage holds more than its frames
CaptureEncoding_AdvanceLate(self, encoding) ==
    LET added == add_encoding(self, encoding)
        cur == get_current_stage(added)
        counted == [added EXCEPT !.stages[cur] = @ + 1]
    IN  IF counted.stages[cur] > counted.frames_per_pose
          THEN advance_stage(counted)
          ELSE counted

\* the capture block of process_frame: add the encoding, count the frame,
\* advance the stage when the current stage has its frames
CaptureEncoding(self, encoding) ==
    LET added == add_encoding(self, encoding)
        cur == get_current_stage(added)
        counted == [added EXCEPT !.stages[cur] = @ + 1]
    IN  IF counted.stages[cur] >= counted.frames_per_pose
          THEN advance_stage(counted)
          ELSE counted

\* the default status of process_frame; building it calls is_complete
DefaultStatus(self) ==
    LET first == is_complete(self)
    IN  [self   |-> first.self,
         status |-> [stage         |-> STAGES[get_current_stage(self) + 1].name,
                     stage_index   |-> self.current_stage_index,
                     instruction   |-> get_current_instruction(self),
                     progress      |-> Progress(self),
                     is_complete   |-> first.value,
                     face_detected |-> FALSE,
                     feedback      |-> "",
                     quality_ok    |-> FALSE]]

\* the face count gate letting two faces through
MultipleFacesOverTwo(face_locations) == Len(face_locations) > 2

\* len(face_locations) > 1
MultipleFaces(face_locations) == Len(face_locations) > 1

\* a backend call of face_recognition raises on this frame; frame.raises is
\* the set of the calls that do
BackendRaises(frame, call) == call \in frame.raises

\* the exception leaves process_frame: nothing is returned
Raised(self, call) == [self |-> self, status |-> [raised |-> call]]

\* process_frame from the lighting check on, for a session that is not
\* completed
GateAndCapture(self, status, frame) ==
    LET lighting == analyze_lighting(frame)
        locs == frame.face_locations
        position == validate_face_position(FaceBox(locs[1]), frame.width, frame.height)
        blur == check_blur(frame)
        pose_check == validate_pose(frame.face_landmarks[1], status.stage)
    IN  IF ~ lighting.is_adequate THEN
            [self |-> self, status |-> [status EXCEPT !.feedback = lighting.message]]
        ELSE IF BackendRaises(frame, "face_locations") THEN
            Raised(self, "face_locations")
        ELSE IF Len(locs) = 0 THEN
            [self |-> self,
             status |-> [status EXCEPT
                           !.feedback = "No face detected - please face the camera"]]
        ELSE IF MultipleFaces(locs) THEN
            [self |-> self,
             status |-> [status EXCEPT
                           !.feedback = "Multiple faces detected - only one person please",
                           !.face_detected = TRUE]]
        ELSE IF ~ position.is_valid THEN
            [self |-> self,
             status |-> [status EXCEPT !.face_detected = TRUE,
                                       !.feedback = position.message]]
        ELSE IF ~ blur.is_sharp THEN
            [self |-> self,
             status |-> [status EXCEPT !.face_detected = TRUE,
                                       !.feedback = blur.message]]
        ELSE IF BackendRaises(frame, "face_landmarks") THEN
            Raised(self, "face_landmarks")
        ELSE IF frame.face_landmarks # << >> /\ ~ pose_check.is_valid THEN
            [self |-> self,
             status |-> [status EXCEPT !.face_detected = TRUE,
                                       !.feedback = pose_check.message]]
        ELSE IF BackendRaises(frame, "face_encodings") THEN
            Raised(self, "face_encodings")
        ELSE
            LET s1 == IF frame.face_encodings # << >>
                        THEN CaptureEncoding(self, frame.face_encodings[1])
                        ELSE self
                last == is_complete(s1)
            IN  [self |-> last.self,
                 status |-> [status EXCEPT
                     !.face_detected = TRUE,
                     !.quality_ok = TRUE,
                     !.progress = Progress(s1),
                     !.is_complete = last.value,
                     !.feedback = IF last.value
                                    THEN "Face capture complete!"
                                    ELSE "Hold still... "
                                         \o get_current_instruction(self)]]

\* process_frame checking blur right after lighting, before the faces
process_frame_BlurBeforeFaces(self, frame) ==
    LET d == DefaultStatus(self)
    IN  IF d.self.completed
          THEN [self |-> d.self,
                status |-> [d.status EXCEPT !.feedback = "Capture complete!"]]
        ELSE IF analyze_lighting(frame).is_adequate /\ ~ check_blur(frame).is_sharp
          THEN [self |-> d.self,
                status |-> [d.status EXCEPT !.feedback = check_blur(frame).message]]
          ELSE GateAndCapture(d.self, d.status, frame)

\* process_frame without the early return of a completed session
process_frame_NoCompletedReturn(self, frame) ==
    LET d == DefaultStatus(self)
    IN  GateAndCapture(d.self, d.status, frame)

\* process_frame: [self |-> the fields after the call, status |-> status].
\* The annotated copy of the frame is not modelled.
process_frame(self, frame) ==
    LET d == DefaultStatus(self)
    IN  IF d.self.completed
          THEN [self |-> d.self,
                status |-> [d.status EXCEPT !.feedback = "Capture complete!"]]
          ELSE GateAndCapture(d.self, d.status, frame)

-----------------------------------------------------------------------------
(* FaceDetector (camera.py).  A box is <<x, y, w, h>>; a detector value    *)
(* `self` is the record of the object's fields.  An IoU is kept as the     *)
(* exact fraction intersection / union.                                    *)

\* the default scale 0.5
DETECTOR_SCALE == [num |-> 1, den |-> 2]

\* best_iou = 0.3, the minimum IoU of a match
MIN_IOU == [num |-> 3, den |-> 10]

Max(a, b) == IF a >= b THEN a ELSE b

Min(a, b) == IF a <= b THEN a ELSE b

\* int(n / d) for d > 0: the quotient truncated towards zero
TruncDiv(n, d) == IF n >= 0 THEN n \div d ELSE -((-n) \div d)

\* p > q for fractions with positive denominators
FracGt(p, q) == p.num * q.den > q.num * p.den

\* _calculate_iou dividing by the sum of the two areas
_calculate_iou_UnionNotReduced(box1, box2) ==
    LET xi1 == Max(box1[1], box2[1])
        yi1 == Max(box1[2], box2[2])
        xi2 == Min(box1[1] + box1[3], box2[1] + box2[3])
        yi2 == Min(box1[2] + box1[4], box2[2] + box2[4])
        intersection == (xi2 - xi1) * (yi2 - yi1)
        union == box1[3] * box1[4] + box2[3] * box2[4]
    IN  IF xi2 <= xi1 \/ yi2 <= yi1 THEN Fraction(0, 1)
        ELSE IF union > 0 THEN Fraction(intersection, union)
        ELSE Fraction(0, 1)

_calculate_iou(box1, box2) ==
    LET xi1 == Max(box1[1], box2[1])
        yi1 == Max(box1[2], box2[2])
        xi2 == Min(box1[1] + box1[3], box2[1] + box2[3])
        yi2 == Min(box1[2] + box1[4], box2[2] + box2[4])
        intersection == (xi2 - xi1) * (yi2 - yi1)
        union == box1[3] * box1[4] + box2[3] * box2[4] - intersection
    IN  IF xi2 <= xi1 \/ yi2 <= yi1 THEN Fraction(0, 1)
        ELSE IF union > 0 THEN Fraction(intersection, union)
        ELSE Fraction(0, 1)

\* BestMatch taking a face whose IoU equals the best so far
RECURSIVE BestMatch_AtLeast(_, _, _)
BestMatch_AtLeast(face, prev_faces, best) ==
    IF prev_faces = << >> THEN best
    ELSE LET iou == _calculate_iou(face, Head(prev_faces))
         IN  BestMatch_AtLeast(face, Tail(prev_faces),
                       IF ~ FracGt(best.iou, iou)
                         THEN [match |-> << Head(prev_faces) >>, iou |-> iou]
                         ELSE best)

\* the loop over prev_faces: `best` is [match, iou], with match << >> for
\* best_match = None and << box >> otherwise
RECURSIVE BestMatch(_, _, _)
BestMatch(face, prev_faces, best) ==
    IF prev_faces = << >> THEN best
    ELSE LET iou == _calculate_iou(face, Head(prev_faces))
         IN  BestMatch(face, Tail(prev_faces),
                       IF FracGt(iou, best.iou)
                         THEN [match |-> << Head(prev_faces) >>, iou |-> iou]
                         ELSE best)

\* the loop over history[:-1]: the best matches appended to
\* matched_positions, one at most for each earlier frame
RECURSIVE MatchedInEarlier(_, _)
MatchedInEarlier(face, earlier) ==
    IF earlier = << >> THEN << >>
    ELSE BestMatch(face, Head(earlier), [match |-> << >>, iou |-> MIN_IOU]).match
         \o MatchedInEarlier(face, Tail(earlier))

\* sum(f[c] for f in matched_positions)
RECURSIVE SumOfComponent(_, _)
SumOfComponent(positions, c) ==
    IF positions = << >> THEN 0
    ELSE Head(positions)[c] + SumOfComponent(Tail(positions), c)

\* (avg_x, avg_y, avg_w, avg_h): int(sum / len) of each component
AveragePosition(matched_positions) ==
    [c \in 1 .. 4 |->
        TruncDiv(SumOfComponent(matched_positions, c), Len(matched_positions))]

\* history[:-1]
AllButLast(history) == SubSeq(history, 1, Len(history) - 1)

_smooth_detections(history) ==
    IF history = << >> THEN << >>
    ELSE IF history[Len(history)] = << >> THEN << >>
    ELSE LET current_faces == history[Len(history)]
         IN  IF Len(history) < 2 THEN current_faces
             ELSE [i \in 1 .. Len(current_faces) |->
                     AveragePosition(<< current_faces[i] >>
                        \o MatchedInEarlier(current_faces[i], AllButLast(history)))]

\* __init__ (the model name 'hog' or 'cnn' only selects the backend)
NewDetector(skip_frames, smoothing_window) ==
    [scale             |-> DETECTOR_SCALE,
     skip_frames       |-> skip_frames,
     smoothing_window  |-> smoothing_window,
     frame_count       |-> 0,
     cached_faces      |-> << >>,
     detection_history |-> << >>]

\* (x, y, w, h) of a location (top, right, bottom, left) found in the
\* downscaled frame: int(v / scale) of each
ScaleLocation(loc, scale) ==
    << TruncDiv(loc[4] * scale.den, scale.num),
       TruncDiv(loc[1] * scale.den, scale.num),
       TruncDiv((loc[2] - loc[4]) * scale.den, scale.num),
       TruncDiv((loc[3] - loc[1]) * scale.den, scale.num) >>

\* the list `faces` built from face_locations
ScaledFaces(face_locations, scale) ==
    [i \in 1 .. Len(face_locations) |-> ScaleLocation(face_locations[i], scale)]

\* the skip test taken before frame_count is incremented
IsSkipped_BeforeIncrement(self) == (self.frame_count - 1) % self.skip_frames # 0

\* self.frame_count % self.skip_frames != 0
IsSkipped(self) == self.frame_count % self.skip_frames # 0

\* the eviction removing the newest entry
EvictOldest_PopsLast(history, smoothing_window) ==
    IF Len(history) > smoothing_window
      THEN SubSeq(history, 1, Len(history) - 1)
      ELSE history

\* if len(self.detection_history) > self.smoothing_window: pop(0)
EvictOldest(history, smoothing_window) ==
    IF Len(history) > smoothing_window THEN Tail(history) ELSE history

\* detect: [self |-> the fields after the call, value |-> the list returned]
\* or, when the backend raises, [self, raised]; located tells whether
\* face_recognition.face_locations was called
detect(self, frame) ==
    LET counted == [self EXCEPT !.frame_count = @ + 1]
        faces == ScaledFaces(frame.face_locations, counted.scale)
        history == EvictOldest(Append(counted.detection_history, faces),
                               counted.smoothing_window)
        cached == IF Len(history) >= 2 THEN _smooth_detections(history) ELSE faces
    IN  IF IsSkipped(counted)
          THEN [self |-> counted, value |-> counted.cached_faces, located |-> FALSE]
        ELSE IF BackendRaises(frame, "face_locations")
          THEN [self |-> counted, raised |-> "face_locations", located |-> TRUE]
          ELSE [self |-> [counted EXCEPT !.detection_history = history,
                                         !.cached_faces = cached],
                value |-> cached, located |-> TRUE]

-----------------------------------------------------------------------------
(* Inputs: the frames fed to process_frame and the vectors given to        *)
(* add_encoding.                                                           *)

\* the frame size of the test frames
FRAME_WIDTH == 640
FRAME_HEIGHT == 480

\* face locations (top, right, bottom, left)
LocCentered == << 140, 420, 340, 220 >>
LocSmall    == << 200, 352, 264, 288 >>
LocLeft     == << 140, 200, 340, 0 >>
LocRight    == << 140, 640, 340, 440 >>
LocHigh     == << 0, 420, 150, 220 >>
LocLow      == << 330, 420, 480, 220 >>

\* a landmark set with the nose tip at `nose` and a mouth `mouth` wide
Landmarks(nose, mouth) ==
    [left_eye    |-> << 280, 200 >>,
     right_eye   |-> << 360, 200 >>,
     nose_tip    |-> nose,
     chin        |-> << 320, 310 >>,
     mouth_left  |-> << 320 - mouth, 280 >>,
     mouth_right |-> << 320 + mouth, 280 >>,
     jaw_left    |-> << 245, 220 >>,
     jaw_right   |-> << 395, 220 >>]

\* straight, turned left, turned right, chin up, looking down, smiling
LandmarkSets ==
    { Landmarks(<< 320, 250 >>, 25), Landmarks(<< 300, 250 >>, 25),
      Landmarks(<< 340, 250 >>, 25), Landmarks(<< 320, 240 >>, 25),
      Landmarks(<< 320, 260 >>, 25), Landmarks(<< 320, 250 >>, 30) }

\* the embedding vectors the backend returns (two components stand for 128)
Embeddings == { << 1, 1 >>, << 3, -2 >> }

\* a frame that passes lighting, face count, position and blur, with the
\* landmark set l and an embedding
GoodFrame(l) ==
    [height         |-> FRAME_HEIGHT,
     width          |-> FRAME_WIDTH,
     brightness     |-> 128,
     laplacian_var  |-> 5,
     face_locations |-> << LocCentered >>,
     face_landmarks |-> << l >>,
     face_encodings |-> << << 1, 1 >> >>,
     raises         |-> {}]

Straight == Landmarks(<< 320, 250 >>, 25)

\* the frames of SpecAgg: a good frame of every pose with either embedding,
\* and a dark frame
AggFrames ==
    { [GoodFrame(l) EXCEPT !.face_encodings = << v >>] :
          l \in LandmarkSets, v \in Embeddings }
    \cup { [GoodFrame(Straight) EXCEPT !.brightness = 39] }

TurnedLeft == Landmarks(<< 300, 250 >>, 25)

\* frames failing more than one gate: dark with no face, off-centre and
\* blurry, blurry with a turned head, two faces and blurry, bright and small
FramesFailingSeveralGates ==
    { [GoodFrame(Straight) EXCEPT !.brightness = 39, !.face_locations = << >>],
      [GoodFrame(Straight) EXCEPT !.face_locations = << LocLeft >>,
                                  !.laplacian_var = 4],
      [GoodFrame(TurnedLeft) EXCEPT !.laplacian_var = 4],
      [GoodFrame(Straight) EXCEPT !.face_locations = << LocCentered, LocLeft >>,
                                  !.laplacian_var = 4],
      [GoodFrame(Straight) EXCEPT !.brightness = 221,
                                  !.face_locations = << LocSmall >>] }

\* frames on which a backend call raises: each call in turn on a frame that
\* is otherwise good, and face localization on a blurry frame
BackendCalls == { "face_locations", "face_landmarks", "face_encodings" }

RaisingFrames ==
    { [GoodFrame(Straight) EXCEPT !.raises = {call}] : call \in BackendCalls }
    \cup { [GoodFrame(Straight) EXCEPT !.raises = {"face_locations"},
                                       !.laplacian_var = 4] }

\* the frames of the state-machine specifications: a good frame of every
\* pose, and a frame failing each gate or backend step in turn
Frames ==
    { GoodFrame(l) : l \in LandmarkSets }
    \cup { [GoodFrame(Straight) EXCEPT !.brightness = b] : b \in {39, 221} }
    \cup { [GoodFrame(Straight) EXCEPT !.face_locations = locs] :
              locs \in { << >>, << LocCentered, LocLeft >>, << LocSmall >>,
                         << LocLeft >>, << LocRight >>, << LocHigh >>, << LocLow >> } }
    \cup { [GoodFrame(Straight) EXCEPT !.laplacian_var = 4],
           [GoodFrame(Straight) EXCEPT !.face_landmarks = << >>],
           [GoodFrame(Straight) EXCEPT !.face_encodings = << >>],
           [GoodFrame(Straight) EXCEPT !.brightness = 39,
                                       !.face_locations = << LocCentered, LocLeft >>] }

\* the boxes given to _calculate_iou
Boxes ==
    { << x, y, w, h >> : x \in 0 .. MaxCoord, y \in 0 .. MaxCoord,
                         w \in 0 .. MaxSide, h \in 0 .. MaxSide }

\* boxes of detected faces.  Against BoxA: BoxNear has IoU 9/11, BoxMid
\* 33/97, BoxExact exactly 3/10, BoxLow 3/17 and BoxFar does not overlap;
\* BoxA and BoxRight are equally close to BoxNear.
BoxA     == << 0, 0, 20, 26 >>
BoxNear  == << 2, 0, 20, 26 >>
BoxRight == << 4, 0, 20, 26 >>
BoxMid   == << 8, 4, 20, 26 >>
BoxExact == << 8, 6, 20, 26 >>
BoxLow   == << 10, 10, 20, 26 >>
BoxFar   == << 40, 40, 20, 26 >>

\* the detection lists of one frame
DetectionLists ==
    { << >>, << BoxA >>, << BoxNear >>, << BoxMid >>, << BoxExact >>,
      << BoxA, BoxFar >>, << BoxLow, BoxMid, BoxNear >>, << BoxA, BoxRight >> }

\* locations (top, right, bottom, left) in the downscaled frame whose boxes
\* in the full frame are BoxA, BoxNear and BoxFar
DetLocA    == << 0, 10, 13, 0 >>
DetLocNear == << 0, 11, 13, 1 >>
DetLocFar  == << 20, 30, 33, 20 >>

\* a frame given to detect, by what face_recognition.face_locations
\* answers for it
DetectorFrame(face_locations) == [face_locations |-> face_locations, raises |-> {}]

\* no face, a face, the same face moved a little, two faces
DetectorFrames ==
    { DetectorFrame(l) :
        l \in { << >>, << DetLocA >>, << DetLocNear >>, << DetLocA, DetLocFar >> } }

\* a frame on which face localization raises
RaisingDetectorFrame ==
    [face_locations |-> << DetLocA >>, raises |-> {"face_locations"}]

\* the sequences of length 0 .. n of members of S
RECURSIVE SeqsUpTo(_, _)
SeqsUpTo(S, n) ==
    IF n = 0 THEN { << >> }
    ELSE LET shorter == SeqsUpTo(S, n - 1)
         IN  shorter \cup { Append(s, e) : s \in shorter, e \in S }

\* the histories given to _smooth_detections
Histories == SeqsUpTo(DetectionLists, MaxHistory)

-----------------------------------------------------------------------------
(* The state machine: one action per public method.                        *)

Self ==
    [frames_per_pose     |-> frames_per_pose,
     current_stage_index |-> current_stage_index,
     encodings           |-> encodings,
     completed           |-> completed,
     stages              |-> stages]

\* the fields become those of `new`
Becomes(new) ==
    /\ frames_per_pose' = new.frames_per_pose
    /\ current_stage_index' = new.current_stage_index
    /\ encodings' = new.encodings
    /\ completed' = new.completed
    /\ stages' = new.stages

None == [none |-> TRUE]

\* no FaceDetector was constructed
NoDetectors == detectors = << >> /\ fed = << >>

\* no capture session is registered and no enrollment stream is open
NoEnrollment == enrollment_captures = << >> /\ captures = << >> /\ feeds = << >>

\* Camera.__init__: video_capture is None.  `opened` stands for
\* "video_capture is not None and video_capture.isOpened()"; frame_count
\* and cached_faces of the Camera are used by detect_faces_optimized only,
\* which the application never calls.
NewCamera == [opened |-> FALSE]

\* Camera.start; the device is taken to open
Camera_start(self) == [self EXCEPT !.opened = TRUE]

\* Camera.stop
Camera_stop(self) == [self EXCEPT !.opened = FALSE]

\* Camera.get_frame returns a frame: the capture is open (a failed read
\* of an open device is not modelled)
HasFrame(self) == self.opened

\* empty tables, no recognition stream, the camera not started
NoSessions ==
    /\ class_sessions = << >>
    /\ attendance = << >>
    /\ now = 0
    /\ video_feeds = << >>
    /\ camera = NewCamera

\* the capture session of the specifications that use none: the one the
\* controller would create, GuidedFaceCapture(frames_per_pose=3), untouched
IdleCapture ==
    /\ frames_per_pose = NewSession(ENROLLMENT_FRAMES_PER_POSE).frames_per_pose
    /\ current_stage_index = NewSession(ENROLLMENT_FRAMES_PER_POSE).current_stage_index
    /\ encodings = NewSession(ENROLLMENT_FRAMES_PER_POSE).encodings
    /\ completed = NewSession(ENROLLMENT_FRAMES_PER_POSE).completed
    /\ stages = NewSession(ENROLLMENT_FRAMES_PER_POSE).stages

\* a freshly constructed GuidedFaceCapture(frames_per_pose = k), k <= maxK
InitWith(maxK) ==
    /\ NoDetectors
    /\ NoEnrollment
    /\ NoSessions
    /\ \E k \in 1 .. maxK :
          /\ frames_per_pose = NewSession(k).frames_per_pose
          /\ current_stage_index = NewSession(k).current_stage_index
          /\ encodings = NewSession(k).encodings
          /\ completed = NewSession(k).completed
          /\ stages = NewSession(k).stages
    /\ lastCall = "__init__"
    /\ arg = None
    /\ ret = None

Init == InitWith(MaxFramesPerPose)

ProcessFrame(frame) ==
    LET r == process_frame(Self, frame)
    IN  /\ Becomes(r.self)
        /\ UNCHANGED <<detectorVars, enrollmentVars, sessionVars, camera>>
        /\ lastCall' = "process_frame"
        /\ arg' = frame
        /\ ret' = r.status

IsComplete ==
    LET r == is_complete(Self)
    IN  /\ Becomes(r.self)
        /\ UNCHANGED <<detectorVars, enrollmentVars, sessionVars, camera>>
        /\ lastCall' = "is_complete"
        /\ arg' = None
        /\ ret' = [value |-> r.value]

GetAggregatedEncoding ==
    /\ Becomes(Self)
    /\ UNCHANGED <<detectorVars, enrollmentVars, sessionVars, camera>>
    /\ lastCall' = "get_aggregated_encoding"
    /\ arg' = None
    /\ ret' = get_aggregated_encoding(Self)

Reset ==
    /\ Becomes(reset(Self))
    /\ UNCHANGED <<detectorVars, enrollmentVars, sessionVars, camera>>
    /\ lastCall' = "reset"
    /\ arg' = None
    /\ ret' = None

AdvanceStage ==
    /\ Becomes(advance_stage(Self))
    /\ UNCHANGED <<detectorVars, enrollmentVars, sessionVars, camera>>
    /\ lastCall' = "advance_stage"
    /\ arg' = None
    /\ ret' = None

\* called directly while fewer than MaxInjected encodings are stored
AddEncoding(encoding) ==
    /\ Len(encodings) < MaxInjected
    /\ Becomes(add_encoding(Self, encoding))
    /\ UNCHANGED <<detectorVars, enrollmentVars, sessionVars, camera>>
    /\ lastCall' = "add_encoding"
    /\ arg' = encoding
    /\ ret' = None

\* The session as the application drives it (app.py and the face capture
\* controller): frames from the enrollment stream, status polls, the
\* encoding request and reset.
Next ==
    \/ \E frame \in Frames \cup FramesFailingSeveralGates : ProcessFrame(frame)
    \/ IsComplete
    \/ GetAggregatedEncoding
    \/ Reset

Spec == Init /\ [][Next]_vars

\* face boxes of a 640 x 480 frame for validate_face_position: widths below,
\* at and above 15% of the frame width (96), left edges and top edges that
\* put the centre below, at and above 20% and 80% of the frame, and the
\* boxes centred in the frame
PositionLefts == {0, 27, 28, 29, 80, 220, 272, 411, 412, 413, 464, 540}
PositionTops == {0, 45, 46, 47, 140, 190, 333, 334, 335, 380}
PositionWidths == {0, 50, 95, 96, 97, 200, 201}
PositionHeights == {100, 101, 200}
PositionBoxes ==
    { <<x, y, w, h>> : x \in PositionLefts, y \in PositionTops,
                       w \in PositionWidths, h \in PositionHeights }

\* The helpers of FaceDetector and the position gate of GuidedFaceCapture
\* applied to given arguments, as the unit tests apply them: the arguments
\* are chosen first, the call follows.
InitHelpers ==
    /\ IdleCapture
    /\ NoDetectors
    /\ NoEnrollment
    /\ NoSessions
    /\ lastCall = "__init__"
    /\ ret = None
    /\ \/ \E box1 \in Boxes, box2 \in Boxes :
              arg = [box1 |-> box1, box2 |-> box2]
       \/ \E history \in Histories : arg = [history |-> history]
       \/ \E face_box \in PositionBoxes :
              arg = [face_box |-> face_box, frame_width |-> FRAME_WIDTH,
                     frame_height |-> FRAME_HEIGHT]

CalculateIou ==
    /\ lastCall = "__init__"
    /\ "box1" \in DOMAIN arg
    /\ lastCall' = "_calculate_iou"
    /\ ret' = _calculate_iou(arg.box1, arg.box2)
    /\ UNCHANGED <<arg, captureVars, detectorVars, enrollmentVars, sessionVars, camera>>

SmoothDetections ==
    /\ lastCall = "__init__"
    /\ "history" \in DOMAIN arg
    /\ lastCall' = "_smooth_detections"
    /\ ret' = _smooth_detections(arg.history)
    /\ UNCHANGED <<arg, captureVars, detectorVars, enrollmentVars, sessionVars, camera>>

ValidateFacePosition ==
    /\ lastCall = "__init__"
    /\ "face_box" \in DOMAIN arg
    /\ lastCall' = "validate_face_position"
    /\ ret' = validate_face_position(arg.face_box, arg.frame_width, arg.frame_height)
    /\ UNCHANGED <<arg, captureVars, detectorVars, enrollmentVars, sessionVars, camera>>

NextHelpers == CalculateIou \/ SmoothDetections \/ ValidateFacePosition

SpecHelpers == InitHelpers /\ [][NextHelpers]_vars

\* One FaceDetector, its skip_frames and smoothing_window chosen at
\* construction, and the stream that owns it calling detect.
InitDetector ==
    /\ IdleCapture
    /\ NoEnrollment
    /\ NoSessions
    /\ lastCall = "__init__"
    /\ arg = None
    /\ ret = None
    /\ \E skip_frames \in 1 .. MaxSkipFrames, smoothing_window \in 1 .. MaxWindow :
          detectors = [stream \in {1} |-> NewDetector(skip_frames, smoothing_window)]
    /\ fed = [stream \in {1} |-> << >>]

\* the value or the exception of a detect call, and whether it localized
Outcome(r) ==
    IF "raised" \in DOMAIN r
      THEN [raised |-> r.raised, located |-> r.located]
      ELSE [value |-> r.value, located |-> r.located]

\* faces = detector.detect(frame) in the stream `stream`, on detector d
DetectOn(stream, d, frame) ==
    LET r == detect(detectors[d], frame)
    IN  /\ Len(fed[stream]) < MaxCalls
        /\ detectors' = [detectors EXCEPT ![d] = r.self]
        /\ fed' = [fed EXCEPT ![stream] = Append(@, frame)]
        /\ lastCall' = "detect"
        /\ arg' = [stream |-> stream, frame |-> frame]
        /\ ret' = Outcome(r)
        /\ UNCHANGED <<captureVars, enrollmentVars, sessionVars, camera>>

Detect(frame) == DetectOn(1, 1, frame)

NextDetector == \E frame \in DetectorFrames : Detect(frame)

SpecDetector == InitDetector /\ [][NextDetector]_vars

\* The same with a backend that may raise.
NextDetectorBackend ==
    \E frame \in DetectorFrames \cup {RaisingDetectorFrame} : Detect(frame)

SpecDetectorBackend == InitDetector /\ [][NextDetectorBackend]_vars

\* The recognition streams of app.py (gen_frames), each request served by
\* its own thread: a stream constructs its FaceDetector when it starts and
\* calls detect on it for every frame it reads, until the camera gives none.
Streams == { 1, 2 }

\* the detector a stream's detect calls go to, if all streams used one
DetectorOf_Shared(stream) == 1

\* the detector a stream's detect calls go to: `detector`, a local of the
\* generator, here keyed by the stream
DetectorOf(stream) == stream

InitStreams ==
    /\ IdleCapture
    /\ NoEnrollment
    /\ NoSessions
    /\ NoDetectors
    /\ lastCall = "__init__"
    /\ arg = None
    /\ ret = None

\* f with the value v at key k, added or replaced
With(f, k, v) == [x \in DOMAIN f \cup {k} |-> IF x = k THEN v ELSE f[x]]

\* f without the key k
Without(f, k) == [x \in DOMAIN f \ {k} |-> f[x]]

\* gen_frames up to its loop
OpenVideoFeed(stream) ==
    /\ stream \notin DOMAIN fed
    /\ detectors' = With(detectors, DetectorOf(stream),
                         NewDetector(STREAM_SKIP_FRAMES, STREAM_SMOOTHING_WINDOW))
    /\ fed' = With(fed, stream, << >>)
    /\ lastCall' = "gen_frames"
    /\ arg' = [stream |-> stream]
    /\ ret' = None
    /\ UNCHANGED <<captureVars, enrollmentVars, sessionVars, camera>>

\* one turn of the loop of gen_frames with a frame from the camera
StreamDetect(stream, frame) ==
    /\ stream \in DOMAIN fed
    /\ Len(fed[stream]) < MaxStreamCalls
    /\ DetectOn(stream, DetectorOf(stream), frame)

\* camera.get_frame() returned None: the generator ends
CloseVideoFeed(stream) ==
    /\ stream \in DOMAIN fed
    /\ detectors' = Without(detectors, DetectorOf(stream))
    /\ fed' = Without(fed, stream)
    /\ lastCall' = "break"
    /\ arg' = [stream |-> stream]
    /\ ret' = None
    /\ UNCHANGED <<captureVars, enrollmentVars, sessionVars, camera>>

NextStreams ==
    \E stream \in Streams :
        \/ OpenVideoFeed(stream)
        \/ \E frame \in DetectorFrames : StreamDetect(stream, frame)
        \/ CloseVideoFeed(stream)

SpecStreams == InitStreams /\ [][NextStreams]_vars

\* The enrollment streams of app.py and the capture controller, each
\* request served by its own thread.  captures[id] is a GuidedFaceCapture
\* object; enrollment_captures and the streams hold objects by their id.
UserIds == { "default", "lecturer" }

\* the frames the enrollment streams read: a passing frame and a dark one
EnrollmentFrames ==
    { GoodFrame(Straight), [GoodFrame(Straight) EXCEPT !.brightness = 39] }

InitEnrollment ==
    /\ IdleCapture
    /\ NoDetectors
    /\ NoEnrollment
    /\ NoSessions
    /\ lastCall = "__init__"
    /\ arg = None
    /\ ret = None

\* get_user_capture_session: [captures, enrollment_captures, id] with the
\* session of user_id created if the dict has none
get_user_capture_session(objects, dict, user_id) ==
    IF user_id \notin DOMAIN dict
      THEN [captures |-> Append(objects, NewSession(ENROLLMENT_FRAMES_PER_POSE)),
            enrollment_captures |-> With(dict, user_id, Len(objects) + 1),
            id |-> Len(objects) + 1]
      ELSE [captures |-> objects, enrollment_captures |-> dict, id |-> dict[user_id]]

\* enrollment_video_feed: the session is looked up, the generator starts
\* and starts the camera
EnrollmentVideoFeed(stream, user_id) ==
    LET got == get_user_capture_session(captures, enrollment_captures, user_id)
    IN  /\ stream \notin DOMAIN feeds
        /\ Len(got.captures) <= MaxCaptures
        /\ captures' = got.captures
        /\ enrollment_captures' = got.enrollment_captures
        /\ feeds' = With(feeds, stream, got.id)
        /\ camera' = Camera_start(camera)
        /\ lastCall' = "enrollment_video_feed"
        /\ arg' = [stream |-> stream, user_id |-> user_id]
        /\ ret' = None
        /\ UNCHANGED <<captureVars, detectorVars, sessionVars>>

\* one turn of the loop of gen_enrollment_frames with a frame from the
\* camera (without one the loop sleeps and tries again): process_frame on
\* the session the stream holds; when the status is complete the stream
\* stops the camera and ends
EnrollmentProcessFrame(stream, frame) ==
    /\ stream \in DOMAIN feeds
    /\ HasFrame(camera)
    /\ Len(captures[feeds[stream]].encodings) < MaxEnrollEncodings
    /\ LET r == process_frame(captures[feeds[stream]], frame)
       IN  /\ captures' = [captures EXCEPT ![feeds[stream]] = r.self]
           /\ feeds' = IF r.status.is_complete THEN Without(feeds, stream) ELSE feeds
           /\ camera' = IF r.status.is_complete THEN Camera_stop(camera) ELSE camera
           /\ lastCall' = "process_frame"
           /\ arg' = [stream |-> stream, frame |-> frame]
           /\ ret' = r.status
    /\ UNCHANGED <<captureVars, detectorVars, enrollment_captures, sessionVars>>

\* the client closes the connection: the generator is closed
CloseEnrollmentFeed(stream) ==
    /\ stream \in DOMAIN feeds
    /\ feeds' = Without(feeds, stream)
    /\ lastCall' = "close"
    /\ arg' = [stream |-> stream]
    /\ ret' = None
    /\ UNCHANGED <<captureVars, detectorVars, enrollment_captures, captures, sessionVars, camera>>

\* start_capture_logic: a new session replaces the user's session, and the
\* camera is started
StartCapture(user_id) ==
    /\ Len(captures) < MaxCaptures
    /\ captures' = Append(captures, NewSession(ENROLLMENT_FRAMES_PER_POSE))
    /\ enrollment_captures' = With(enrollment_captures, user_id, Len(captures) + 1)
    /\ camera' = Camera_start(camera)
    /\ lastCall' = "start_capture_logic"
    /\ arg' = [user_id |-> user_id]
    /\ ret' = None
    /\ UNCHANGED <<captureVars, detectorVars, feeds, sessionVars>>

\* reset_capture_logic
ResetCapture(user_id) ==
    /\ captures' = IF user_id \in DOMAIN enrollment_captures
                     THEN [captures EXCEPT ![enrollment_captures[user_id]] = reset(@)]
                     ELSE captures
    /\ lastCall' = "reset_capture_logic"
    /\ arg' = [user_id |-> user_id]
    /\ ret' = None
    /\ UNCHANGED <<captureVars, detectorVars, enrollment_captures, feeds, sessionVars, camera>>

\* get_progress_percentage: int((total_captured / total_needed) * 100)
get_progress_percentage(self) ==
    IF NumStages * self.frames_per_pose > 0
      THEN (100 * SumStages(self.stages, NumStages))
               \div (NumStages * self.frames_per_pose)
      ELSE 0

\* capture_status_logic: the user's session is looked up (created if the
\* dict has none) and read
CaptureStatus(user_id) ==
    LET got == get_user_capture_session(captures, enrollment_captures, user_id)
        self == got.captures[got.id]
        last == is_complete(self)
    IN  /\ Len(got.captures) <= MaxCaptures
        /\ captures' = [got.captures EXCEPT ![got.id] = last.self]
        /\ enrollment_captures' = got.enrollment_captures
        /\ lastCall' = "capture_status_logic"
        /\ arg' = [user_id |-> user_id]
        /\ ret' = [stage            |-> STAGES[get_current_stage(self) + 1].name,
                   stage_index      |-> self.current_stage_index,
                   instruction      |-> get_current_instruction(self),
                   frames_captured  |-> self.stages[get_current_stage(self)],
                   frames_needed    |-> self.frames_per_pose,
                   total_stages     |-> NumStages,
                   progress_percent |-> get_progress_percentage(self),
                   is_complete      |-> last.value]
        /\ UNCHANGED <<captureVars, detectorVars, feeds, sessionVars, camera>>

\* get_face_encoding_logic: 400 unless the user's session is complete
GetFaceEncoding(user_id) ==
    LET got == get_user_capture_session(captures, enrollment_captures, user_id)
        self == got.captures[got.id]
        last == is_complete(self)
    IN  /\ Len(got.captures) <= MaxCaptures
        /\ captures' = [got.captures EXCEPT ![got.id] = last.self]
        /\ enrollment_captures' = got.enrollment_captures
        /\ lastCall' = "get_face_encoding_logic"
        /\ arg' = [user_id |-> user_id]
        /\ ret' = IF ~ last.value
                    THEN [status |-> 400]
                    ELSE [status |-> 200,
                          face_encoding |-> get_aggregated_encoding(last.self),
                          encoding_count |-> Len(last.self.encodings)]
        /\ UNCHANGED <<captureVars, detectorVars, feeds, sessionVars, camera>>

NextEnrollment ==
    \/ \E stream \in Streams, user_id \in UserIds : EnrollmentVideoFeed(stream, user_id)
    \/ \E stream \in Streams, frame \in EnrollmentFrames :
          EnrollmentProcessFrame(stream, frame)
    \/ \E stream \in Streams : CloseEnrollmentFeed(stream)
    \/ \E user_id \in UserIds : StartCapture(user_id)
    \/ \E user_id \in UserIds : ResetCapture(user_id)
    \/ \E user_id \in UserIds : CaptureStatus(user_id)
    \/ \E user_id \in UserIds : GetFaceEncoding(user_id)

SpecEnrollment == InitEnrollment /\ [][NextEnrollment]_vars

\* The enrollment stream with a backend that may raise.
NextBackend ==
    \/ \E frame \in Frames \cup RaisingFrames : ProcessFrame(frame)
    \/ IsComplete
    \/ Reset

SpecBackend == Init /\ [][NextBackend]_vars

\* Every method that changes the stage, called in any order.
InitApi == InitWith(MaxFramesPerPoseApi)

NextApi ==
    \/ \E frame \in Frames : ProcessFrame(frame)
    \/ IsComplete
    \/ GetAggregatedEncoding
    \/ Reset
    \/ AdvanceStage

SpecApi == InitApi /\ [][NextApi]_vars

\* Aggregation: frames of every pose with either embedding, fed while fewer
\* than MaxEncodings encodings are stored, and vectors injected by
\* add_encoding.
InitAgg == InitWith(MaxFramesPerPoseAgg)

NextAgg ==
    \/ \E frame \in AggFrames : Len(encodings) < MaxEncodings /\ ProcessFrame(frame)
    \/ \E v \in Embeddings : AddEncoding(v)
    \/ GetAggregatedEncoding
    \/ Reset

SpecAgg == InitAgg /\ [][NextAgg]_vars

-----------------------------------------------------------------------------
(* Class sessions and attendance (db_helper.py, session_controller.py) and *)
(* the recognition streams that record attendance (gen_frames of app.py).  *)
(* A table is the sequence of its rows by id; ids are never reused, and a  *)
(* deleted row leaves the mark Deleted.  NULL is None, and 0 for a         *)
(* session_id.  The columns timestamp, status and level of attendance are  *)
(* written and never read by the operations here; they are left out, as   *)
(* is scheduled_start of class_sessions.                                   *)

Deleted == [deleted |-> TRUE]

\* the ids of the rows a table holds
RowIds(table) == { i \in DOMAIN table : table[i] # Deleted }

\* the lecturers, the course codes and the registered students
Lecturers == { 1, 2 }
CourseCodes == { "CS101", "CS102" }
Students == { "TEST001", "TEST002" }

\* create_session without the UPDATE that ends the user's active sessions
create_session_KeepsActive(table, course_code, user_id, start_time) ==
    [class_sessions |->
        Append(table, [id |-> Len(table) + 1, user_id |-> user_id,
                       course_code |-> course_code, start_time |-> start_time,
                       end_time |-> None, is_active |-> 1]),
     lastrowid |-> Len(table) + 1]

\* create_session: [class_sessions |-> the table after, lastrowid |-> id]
create_session(table, course_code, user_id, start_time) ==
    LET ended == [i \in DOMAIN table |->
                    IF i \in RowIds(table) /\ table[i].user_id = user_id
                       /\ table[i].is_active = 1
                      THEN [table[i] EXCEPT !.is_active = 0, !.end_time = start_time]
                      ELSE table[i]]
    IN  [class_sessions |->
            Append(ended, [id |-> Len(table) + 1, user_id |-> user_id,
                           course_code |-> course_code, start_time |-> start_time,
                           end_time |-> None, is_active |-> 1]),
         lastrowid |-> Len(table) + 1]

\* end_session: the UPDATE matches the row of that id, whatever its
\* is_active; value is cursor.rowcount > 0
end_session(table, session_id, end_time) ==
    IF session_id \in RowIds(table)
      THEN [class_sessions |->
               [table EXCEPT ![session_id] =
                   [@ EXCEPT !.is_active = 0, !.end_time = end_time]],
            value |-> TRUE]
      ELSE [class_sessions |-> table, value |-> FALSE]

\* delete_session: value is the rowcount of the second DELETE
delete_session(table, rows, session_id) ==
    [attendance |->
        [i \in DOMAIN rows |->
            IF i \in RowIds(rows) /\ rows[i].session_id = session_id
              THEN Deleted ELSE rows[i]],
     class_sessions |->
        IF session_id \in RowIds(table)
          THEN [table EXCEPT ![session_id] = Deleted] ELSE table,
     value |-> session_id \in RowIds(table)]

\* ORDER BY start_time DESC LIMIT 1 over the rows of the given ids: a row
\* with the latest start_time, any of them when several have it
LatestStarted(table, ids) ==
    { table[i] : i \in { j \in ids :
                           \A k \in ids : table[k].start_time <= table[j].start_time } }

\* get_active_session(user_id, course_code): the rows the query may return;
\* none for the result None.  course_code "" is the absent filter.
get_active_session(table, user_id, course_code) ==
    LatestStarted(table,
        { i \in RowIds(table) :
            /\ table[i].is_active = 1
            /\ table[i].user_id = user_id
            /\ course_code # "" => table[i].course_code = course_code })

\* the active-session query of record_attendance: no user_id in it
ActiveSessionOfCourse(table, course_code) ==
    LatestStarted(table,
        { i \in RowIds(table) :
            /\ table[i].is_active = 1
            /\ course_code # "" => table[i].course_code = course_code })

\* record_attendance inserting without the look-up of an existing row
record_attendance_NoDuplicateCheck(rows, student_id, course_code, session_id) ==
    IF student_id \notin Students
      THEN [attendance |-> rows, value |-> None]
      ELSE [attendance |->
               Append(rows, [id |-> Len(rows) + 1, student_id |-> student_id,
                             course_code |-> course_code, session_id |-> session_id]),
            value |-> [lastrowid |-> Len(rows) + 1]]

\* record_attendance after its active-session query gave session_id (0 when
\* it gave no row): [attendance |-> the table after, value |-> None or the
\* lastrowid]
record_attendance(rows, student_id, course_code, session_id) ==
    IF student_id \notin Students
      THEN [attendance |-> rows, value |-> None]
    ELSE IF session_id # 0
            /\ \E i \in RowIds(rows) : /\ rows[i].session_id = session_id
                                       /\ rows[i].student_id = student_id
      THEN [attendance |-> rows, value |-> None]
      ELSE [attendance |->
               Append(rows, [id |-> Len(rows) + 1, student_id |-> student_id,
                             course_code |-> course_code, session_id |-> session_id]),
            value |-> [lastrowid |-> Len(rows) + 1]]

InitSessions ==
    /\ IdleCapture
    /\ NoDetectors
    /\ NoEnrollment
    /\ NoSessions
    /\ lastCall = "__init__"
    /\ arg = None
    /\ ret = None

\* start_session_logic of an authenticated user with a course code.  Every
\* call of datetime.now() gives a later time than the call before.
StartSessionLogic(user_id, course_code) ==
    LET r == create_session(class_sessions, course_code, user_id, now)
    IN  /\ Len(class_sessions) < MaxSessions
        /\ now < MaxTime
        /\ now' = now + 1
        /\ class_sessions' = r.class_sessions
        /\ camera' = Camera_start(camera)
        /\ lastCall' = "start_session_logic"
        /\ arg' = [user_id |-> user_id, course_code |-> course_code]
        /\ ret' = [status |-> 201, session_id |-> r.lastrowid]
        /\ UNCHANGED <<captureVars, detectorVars, enrollmentVars, attendance,
                       video_feeds>>

\* end_session_logic; session_id 0 is a request without one
EndSessionLogic(session_id) ==
    LET r == end_session(class_sessions, session_id, now)
    IN  /\ now < MaxTime
        /\ now' = IF session_id = 0 THEN now ELSE now + 1
        /\ class_sessions' = IF session_id = 0 THEN class_sessions
                                               ELSE r.class_sessions
        /\ camera' = IF session_id # 0 /\ r.value THEN Camera_stop(camera)
                                                  ELSE camera
        /\ lastCall' = "end_session_logic"
        /\ arg' = [session_id |-> session_id]
        /\ ret' = [status |-> IF session_id = 0 THEN 400
                              ELSE IF r.value THEN 200 ELSE 404]
        /\ UNCHANGED <<captureVars, detectorVars, enrollmentVars, attendance,
                       video_feeds>>

\* delete_session_logic
DeleteSessionLogic(session_id) ==
    LET r == delete_session(class_sessions, attendance, session_id)
    IN  /\ class_sessions' = r.class_sessions
        /\ attendance' = r.attendance
        /\ lastCall' = "delete_session_logic"
        /\ arg' = [session_id |-> session_id]
        /\ ret' = [status |-> IF r.value THEN 200 ELSE 404]
        /\ UNCHANGED <<captureVars, detectorVars, enrollmentVars, now,
                       video_feeds, camera>>

\* video_feed: gen_frames(user_id) up to its loop.  A lecturer runs at most
\* one recognition stream, numbered as the lecturer.
VideoFeed(stream, user_id) ==
    /\ stream \notin DOMAIN video_feeds
    /\ video_feeds' = With(video_feeds, stream, user_id)
    /\ camera' = Camera_start(camera)
    /\ lastCall' = "video_feed"
    /\ arg' = [stream |-> stream, user_id |-> user_id]
    /\ ret' = None
    /\ UNCHANGED <<captureVars, detectorVars, enrollmentVars, class_sessions,
                   attendance, now>>

\* one turn of the loop of gen_frames with a frame from the camera on which
\* the student student_id is recognised ("" when nobody is): the user's
\* active session is looked up and record_attendance is called with its
\* course code.  The detector of the stream is the matter of SpecStreams.
RecognitionTurn(stream, student_id) ==
    /\ stream \in DOMAIN video_feeds
    /\ HasFrame(camera)
    /\ Len(attendance) < MaxAttendance
    /\ lastCall' = "gen_frames"
    /\ arg' = [stream |-> stream, user_id |-> video_feeds[stream],
               student_id |-> student_id]
    /\ LET found == get_active_session(class_sessions, video_feeds[stream], "")
       IN  IF found = {} \/ student_id = ""
             THEN /\ attendance' = attendance
                  /\ ret' = [recorded |-> FALSE]
             ELSE \E active_session \in found :
                    LET course_code == active_session.course_code
                        session_ids ==
                            { s.id : s \in ActiveSessionOfCourse(class_sessions,
                                                                 course_code) }
                    IN  \E session_id \in session_ids \cup
                                          (IF session_ids = {} THEN {0} ELSE {}) :
                          LET r == record_attendance(attendance, student_id,
                                                     course_code, session_id)
                          IN  /\ attendance' = r.attendance
                              /\ ret' = [recorded |-> TRUE,
                                         active_session |-> active_session.id,
                                         session_id |-> session_id,
                                         value |-> r.value]
    /\ UNCHANGED <<captureVars, detectorVars, enrollmentVars, class_sessions,
                   now, video_feeds, camera>>

\* the turn of the loop in which camera.get_frame() returns None: break
RecognitionBreak(stream) ==
    /\ stream \in DOMAIN video_feeds
    /\ ~ HasFrame(camera)
    /\ video_feeds' = Without(video_feeds, stream)
    /\ lastCall' = "break"
    /\ arg' = [stream |-> stream]
    /\ ret' = None
    /\ UNCHANGED <<captureVars, detectorVars, enrollmentVars, class_sessions,
                   attendance, now, camera>>

\* the client of a recognition stream disconnects: the generator is closed
DisconnectVideoFeed(stream) ==
    /\ stream \in DOMAIN video_feeds
    /\ video_feeds' = Without(video_feeds, stream)
    /\ lastCall' = "close"
    /\ arg' = [stream |-> stream]
    /\ ret' = None
    /\ UNCHANGED <<captureVars, detectorVars, enrollmentVars, class_sessions,
                   attendance, now, camera>>

\* The lecturers' requests on class sessions and their recognition streams,
\* each request served by its own thread.
NextSessions ==
    \/ \E user_id \in Lecturers, course_code \in CourseCodes :
          StartSessionLogic(user_id, course_code)
    \/ \E session_id \in 0 .. MaxSessions : EndSessionLogic(session_id)
    \/ \E session_id \in 1 .. MaxSessions : DeleteSessionLogic(session_id)
    \/ \E user_id \in Lecturers : VideoFeed(user_id, user_id)
    \/ \E stream \in Streams : RecognitionBreak(stream)
    \/ \E stream \in Streams : DisconnectVideoFeed(stream)

SpecSessions == InitSessions /\ [][NextSessions]_vars

\* The class sessions with the recognition streams recording attendance.
NextAttendance ==
    \/ \E user_id \in Lecturers, course_code \in CourseCodes :
          /\ Len(class_sessions) < MaxRecordedSessions
          /\ StartSessionLogic(user_id, course_code)
    \/ \E session_id \in 1 .. MaxRecordedSessions : DeleteSessionLogic(session_id)
    \/ \E user_id \in Lecturers : VideoFeed(user_id, user_id)
    \/ \E stream \in Streams, student_id \in Students \cup {""} :
          RecognitionTurn(stream, student_id)

SpecAttendance == InitSessions /\ [][NextAttendance]_vars

-----------------------------------------------------------------------------
(* Properties.                                                             *)

\* the frame passes lighting, exactly one face, position, blur and the pose
\* of the session's current stage
PassesAllGates(self, frame) ==
    /\ analyze_lighting(frame).is_adequate
    /\ Len(frame.face_locations) = 1
    /\ validate_face_position(FaceBox(frame.face_locations[1]),
                              frame.width, frame.height).is_valid
    /\ check_blur(frame).is_sharp
    /\ frame.face_landmarks # << >>
    /\ validate_pose(frame.face_landmarks[1],
                     STAGES[get_current_stage(self) + 1].name).is_valid

\* C1: on a session that is not complete, a process_frame call on a frame
\* that passes every gate and yields an embedding appends exactly that one
\* encoding and adds one to the current stage's frames_captured and to no
\* other; current_stage_index changes on a process_frame call only when the
\* call brings the current stage's counter from frames_per_pose - 1 to
\* frames_per_pose, and then by exactly one.
C1_AcceptedFrameCountsOnce ==
    [][lastCall' = "process_frame" =>
         /\ (~ completed /\ PassesAllGates(Self, arg')
               /\ arg'.face_encodings # << >>) =>
              /\ encodings' = Append(encodings, arg'.face_encodings[1])
              /\ stages' = [stages EXCEPT ![current_stage_index] = @ + 1]
         /\ current_stage_index' # current_stage_index =>
              /\ current_stage_index' = current_stage_index + 1
              /\ stages[current_stage_index] = frames_per_pose - 1
              /\ stages'[current_stage_index] = frames_per_pose]_vars

\* three passing center frames on a fresh session with frames_per_pose = 3:
\* the index is 1, three encodings are stored
C1_Witness ==
    /\ lastCall = "process_frame"
    /\ ret.quality_ok
    /\ frames_per_pose = 3
    /\ current_stage_index = 1
    /\ stages = [i \in StageIndexes |-> IF i = 0 THEN 3 ELSE 0]
    /\ Len(encodings) = 3

\* the messages of the gates the frame fails for the session's current stage
FailedGateMessages(self, frame) ==
    LET lighting == analyze_lighting(frame)
        locs == frame.face_locations
        position == validate_face_position(FaceBox(locs[1]), frame.width, frame.height)
        blur == check_blur(frame)
        pose == validate_pose(frame.face_landmarks[1],
                              STAGES[get_current_stage(self) + 1].name)
    IN  (IF lighting.is_adequate THEN {} ELSE {lighting.message})
        \cup (IF Len(locs) = 0
                THEN {"No face detected - please face the camera"} ELSE {})
        \cup (IF Len(locs) >= 2
                THEN {"Multiple faces detected - only one person please"} ELSE {})
        \cup (IF Len(locs) = 1 /\ ~ position.is_valid THEN {position.message} ELSE {})
        \cup (IF Len(locs) = 1 /\ ~ blur.is_sharp THEN {blur.message} ELSE {})
        \cup (IF Len(locs) = 1 /\ frame.face_landmarks # << >> /\ ~ pose.is_valid
                THEN {pose.message} ELSE {})

SessionUnchanged ==
    UNCHANGED << frames_per_pose, current_stage_index, encodings, completed, stages >>

\* C2: a process_frame call on a session that is not complete, with a frame
\* that fails a gate (lighting, zero faces, two or more faces, position or
\* size, blur, pose), returns a status and leaves current_stage_index, every
\* frames_captured, the encodings and the completed flag as they were; the
\* feedback is the message of a gate the frame fails; a frame rejected for
\* two or more faces has face_detected = TRUE, a frame with no face has
\* face_detected = FALSE.
C2_RejectionChangesNothing ==
    [][(lastCall' = "process_frame" /\ ~ completed
          /\ FailedGateMessages(Self, arg') # {}) =>
         /\ SessionUnchanged
         /\ ret'.feedback \in FailedGateMessages(Self, arg')
         /\ ~ ret'.quality_ok
         /\ (analyze_lighting(arg').is_adequate /\ Len(arg'.face_locations) >= 2)
              => ret'.face_detected
         /\ Len(arg'.face_locations) = 0 => ~ ret'.face_detected]_vars

\* a two-face frame rejected in the middle of a capture
C2_Witness ==
    /\ lastCall = "process_frame"
    /\ ret.feedback = "Multiple faces detected - only one person please"
    /\ ret.face_detected
    /\ ~ completed
    /\ current_stage_index = 2
    /\ Len(encodings) = 2 * frames_per_pose

\* C3: driven by process_frame from a fresh session (is_complete polled at
\* any time), is_complete() is false while fewer than 7 * frames_per_pose
\* samples were accepted and true from the (7 * frames_per_pose)-th on; the
\* session is completed exactly then, with current_stage_index still at the
\* last stage.
C3_CompleteExactlyAfterAllSamples ==
    /\ Len(encodings) <= NumStages * frames_per_pose
    /\ completed = (Len(encodings) = NumStages * frames_per_pose)
    /\ is_complete(Self).value = (Len(encodings) = NumStages * frames_per_pose)
    /\ completed => current_stage_index = NumStages - 1
    /\ lastCall = "is_complete" => ret.value = completed
    /\ lastCall = "process_frame" => ret.is_complete = completed

\* the accepting call at the last stage of a session with frames_per_pose = 3
C3_Witness ==
    /\ lastCall = "process_frame"
    /\ ret.feedback = "Face capture complete!"
    /\ ret.is_complete
    /\ completed
    /\ frames_per_pose = 3
    /\ current_stage_index = NumStages - 1
    /\ Len(encodings) = 21

\* C4: completed implies that every stage's frames_captured is at least
\* frames_per_pose, in every state the public methods reach.
C4_CompletedImpliesAllCaptured ==
    completed => \A i \in StageIndexes : stages[i] >= frames_per_pose

\* the total of component c of the vectors vs[1..n]
RECURSIVE ComponentTotal(_, _, _)
ComponentTotal(vs, c, n) ==
    IF n = 0 THEN 0 ELSE ComponentTotal(vs, c, n - 1) + vs[n][c]

\* the bytes are the pickle of the exact component-wise mean of vs
IsPickledMeanOf(bytes, vs) ==
    /\ "error" \notin DOMAIN bytes
    /\ bytes.bytes = "pickle"
    /\ DOMAIN PickleLoads(bytes) = DOMAIN vs[1]
    /\ \A c \in DOMAIN vs[1] :
          /\ PickleLoads(bytes)[c].den > 0
          /\ PickleLoads(bytes)[c].num * Len(vs)
               = PickleLoads(bytes)[c].den * ComponentTotal(vs, c, Len(vs))

C6_NoLandmarksNoCapture ==
    [][lastCall' = "process_frame" =>
         /\ encodings' # encodings =>
              /\ arg'.face_landmarks # << >>
              /\ validate_pose(arg'.face_landmarks[1],
                               STAGES[get_current_stage(Self) + 1].name).is_valid
         /\ (arg'.face_landmarks = << >> \/ arg'.face_encodings = << >>) =>
              SessionUnchanged]_vars

\* C7: on a completed session every process_frame call, whatever the frame,
\* returns the feedback 'Capture complete!' with is_complete = TRUE and
\* leaves current_stage_index, the counters, the encodings and the
\* completed flag unchanged.
C7_CompletedIsNoOp ==
    [][(completed /\ lastCall' = "process_frame") =>
         /\ SessionUnchanged
         /\ ret'.feedback = "Capture complete!"
         /\ ret'.is_complete = TRUE
         /\ ~ ret'.quality_ok]_vars

\* a frame that passes every gate, fed to a completed session
C7_Witness ==
    /\ lastCall = "process_frame"
    /\ completed
    /\ ret.feedback = "Capture complete!"
    /\ PassesAllGates(Self, arg)
    /\ arg.face_encodings # << >>

\* C8: current_stage_index stays within 0 .. len(stages) - 1; every call
\* leaves it unchanged or adds exactly 1 to it, except reset, which sets it
\* to 0.
C8_IndexBoundedAndMonotone ==
    [][/\ current_stage_index' \in 0 .. NumStages - 1
       /\ \/ current_stage_index' = current_stage_index
          \/ current_stage_index' = current_stage_index + 1
          \/ lastCall' = "reset" /\ current_stage_index' = 0]_vars

\* advance_stage called at the last stage: the index stayed there
C8_Witness ==
    /\ lastCall = "advance_stage"
    /\ current_stage_index = NumStages - 1
    /\ completed

\* C9: from every reachable state reset gives the state of a fresh session
\* with the same frames_per_pose (index 0, no encodings, completed false,
\* is_complete() false, every counter 0); a second reset changes nothing.
C9_ResetRestoresFreshSession ==
    LET r == reset(Self)
    IN  /\ r = NewSession(frames_per_pose)
        /\ reset(r) = r
        /\ ~ is_complete(r).value
        /\ lastCall = "reset" => Self = r

\* a completed session with stored encodings, from which reset starts over
C9_Witness ==
    /\ completed
    /\ encodings # << >>
    /\ current_stage_index = NumStages - 1
    /\ \E i \in StageIndexes : stages[i] > 0

\* C10: get_aggregated_encoding returns the pickle of the exact
\* component-wise mean of all stored encodings (for every component the
\* total of the stored vectors divided by their number) and does not
\* modify the session.
C10_AggregateIsExactMean ==
    [][lastCall' = "get_aggregated_encoding" =>
         /\ SessionUnchanged
         /\ encodings # << >> => IsPickledMeanOf(ret', encodings)]_vars

\* the vectors starting with 1 and with 3 average to 2 in that component
C10_Witness ==
    /\ lastCall = "get_aggregated_encoding"
    /\ encodings = << << 1, 1 >>, << 3, -2 >> >>
    /\ PickleLoads(ret)[1] = [num |-> 2, den |-> 1]
    /\ PickleLoads(ret)[2] = [num |-> -1, den |-> 2]

\* the messages of the gates the frame fails, in the order lighting, face
\* count, position or size, blur, pose; each gate judged on its own (the
\* position of the first face located, the pose of the first landmark set)
FailedGatesInOrder(self, frame) ==
    LET lighting == analyze_lighting(frame)
        locs == frame.face_locations
        position == validate_face_position(FaceBox(locs[1]), frame.width, frame.height)
        blur == check_blur(frame)
        pose == validate_pose(frame.face_landmarks[1],
                              STAGES[get_current_stage(self) + 1].name)
    IN  (IF lighting.is_adequate THEN << >> ELSE << lighting.message >>)
        \o (IF Len(locs) = 0
              THEN << "No face detected - please face the camera" >> ELSE << >>)
        \o (IF Len(locs) >= 2
              THEN << "Multiple faces detected - only one person please" >>
              ELSE << >>)
        \o (IF Len(locs) >= 1 /\ ~ position.is_valid
              THEN << position.message >> ELSE << >>)
        \o (IF ~ blur.is_sharp THEN << blur.message >> ELSE << >>)
        \o (IF frame.face_landmarks # << >> /\ ~ pose.is_valid
              THEN << pose.message >> ELSE << >>)

\* C11: process_frame evaluates lighting, face count, position or size,
\* blur, pose in that order and stops at the first gate that fails: on a
\* session that is not complete the feedback of a frame failing one or more
\* gates is the message of the first of them in that order, whatever later
\* gates it also fails.
C11_FirstFailingGateReported ==
    [][(lastCall' = "process_frame" /\ ~ completed
          /\ FailedGatesInOrder(Self, arg') # << >>) =>
         /\ ret'.feedback = Head(FailedGatesInOrder(Self, arg'))
         /\ ~ ret'.quality_ok]_vars

\* an off-centre and blurry single face at the third stage: the position
\* message is reported, not the blur message
C11_Witness ==
    /\ lastCall = "process_frame"
    /\ current_stage_index = 2
    /\ Len(FailedGatesInOrder(Self, arg)) >= 2
    /\ Len(arg.face_locations) = 1
    /\ ~ check_blur(arg).is_sharp
    /\ ret.feedback = "Move to the right"

\* C12: when the face localization, landmark or embedding backend raises
\* during a process_frame call, process_frame still returns a status: a
\* rejection (quality_ok false, nothing captured, 'no face detected' when
\* face localization is what failed), with the index, the counters, the
\* encodings and the completed flag unchanged.
C12_BackendErrorIsRejection ==
    [][(lastCall' = "process_frame" /\ arg'.raises # {}) =>
         /\ "raised" \notin DOMAIN ret'
         /\ ~ ret'.quality_ok
         /\ SessionUnchanged
         /\ (~ completed /\ analyze_lighting(arg').is_adequate
               /\ BackendRaises(arg', "face_locations")) =>
              ret'.feedback = "No face detected - please face the camera"]_vars

\* the interiors of the two boxes have a point in common
Overlap(a, b) ==
    /\ a[1] < b[1] + b[3] /\ b[1] < a[1] + a[3]
    /\ a[2] < b[2] + b[4] /\ b[2] < a[2] + a[4]

\* C18: for boxes with non-negative coordinates and sides,
\* _calculate_iou(a, b) = _calculate_iou(b, a); the result lies in [0, 1];
\* it is 0 when the boxes do not overlap (boxes touching along an edge
\* included); and _calculate_iou(a, a) = 1 for a box of positive width and
\* height.
C18_IouSymmetricBoundedExact ==
    lastCall = "_calculate_iou" =>
        /\ ret = _calculate_iou(arg.box2, arg.box1)
        /\ ret.den > 0 /\ 0 <= ret.num /\ ret.num <= ret.den
        /\ ~ Overlap(arg.box1, arg.box2) => ret.num = 0
        /\ (arg.box1 = arg.box2 /\ arg.box1[3] > 0 /\ arg.box1[4] > 0) =>
              ret = [num |-> 1, den |-> 1]

\* two boxes that only touch along an edge
C18_Witness ==
    /\ lastCall = "_calculate_iou"
    /\ arg.box1 = << 0, 0, 2, 2 >>
    /\ arg.box2 = << 2, 0, 2, 2 >>
    /\ ret.num = 0

\* the boxes of prev_faces whose IoU with face is above 0.3 and is the
\* highest of the frame
BestCandidates(face, prev_faces) ==
    { b \in { prev_faces[j] : j \in DOMAIN prev_faces } :
        /\ FracGt(_calculate_iou(face, b), MIN_IOU)
        /\ \A j \in DOMAIN prev_faces :
              ~ FracGt(_calculate_iou(face, prev_faces[j]), _calculate_iou(face, b)) }

\* the totals [sum, n] of face and one best candidate of each of the first
\* k frames of history that has one
RECURSIVE MatchTotals(_, _, _)
MatchTotals(face, history, k) ==
    IF k = 0 THEN { [sum |-> face, n |-> 1] }
    ELSE LET before == MatchTotals(face, history, k - 1)
             cands == BestCandidates(face, history[k])
         IN  IF cands = {} THEN before
             ELSE { [sum |-> [c \in 1 .. 4 |-> t.sum[c] + b[c]], n |-> t.n + 1] :
                       t \in before, b \in cands }

\* box is the component-wise mean total.sum / total.n truncated
IsTruncatedMean(box, total) ==
    \A c \in 1 .. 4 :
        box[c] * total.n <= total.sum[c] /\ total.sum[c] < (box[c] + 1) * total.n

\* C14: for a window of at least 2 frames _smooth_detections emits one box
\* for each box of the latest frame, in the same order: the truncated
\* unweighted mean of the box and, from each earlier frame, at most one box,
\* the one of highest IoU strictly above 0.3; a box without a match is
\* emitted unchanged; a window of one frame gives that frame's detections
\* unchanged; a latest frame without detections gives the empty list.
C14_SmoothedIsMeanOfBestMatches ==
    (lastCall = "_smooth_detections" /\ arg.history # << >>) =>
        LET history == arg.history
            n == Len(history)
            current == history[n]
        IN  /\ current = << >> => ret = << >>
            /\ n < 2 => ret = current
            /\ n >= 2 =>
                 /\ DOMAIN ret = DOMAIN current
                 /\ \A i \in DOMAIN current :
                       /\ \E t \in MatchTotals(current[i], history, n - 1) :
                             IsTruncatedMean(ret[i], t)
                       /\ (\A k \in 1 .. n - 1 :
                              BestCandidates(current[i], history[k]) = {})
                            => ret[i] = current[i]

\* BoxNear smoothed over two earlier frames, the first of which holds two
\* boxes equally close to it: the mean of x is 2/3, truncated to 0
C14_Witness ==
    /\ lastCall = "_smooth_detections"
    /\ arg.history = << << BoxA, BoxRight >>, << BoxA >>, << BoxNear >> >>
    /\ ret = << << 0, 0, 20, 26 >> >>

\* C13: a detect call whose incremented frame counter is not a multiple of
\* skip_frames returns the list the detector holds in cached_faces, which is
\* the list returned by the most recent processed call (the empty list of
\* construction before any); it performs no localization and changes
\* nothing of the detector but frame_count.
C13_SkippedCallReturnsCache ==
    [][lastCall' = "detect" =>
         LET self == detectors[arg'.stream]
             after == detectors'[arg'.stream]
         IN  /\ self.frame_count = 0 => self.cached_faces = << >>
             /\ after.frame_count = self.frame_count + 1
             /\ (after.frame_count % self.skip_frames # 0) =>
                  /\ ret' = [value |-> self.cached_faces, located |-> FALSE]
                  /\ after = [self EXCEPT !.frame_count = @ + 1]
             /\ (after.frame_count % self.skip_frames = 0) =>
                  /\ ret'.located
                  /\ ret'.value = after.cached_faces]_vars

\* skip_frames = 3: the fifth call, skipped, returns the face the third call
\* found, though its own frame shows none
C13_Witness ==
    /\ lastCall = "detect"
    /\ detectors[1].skip_frames = 3
    /\ detectors[1].frame_count = 5
    /\ arg.frame.face_locations = << >>
    /\ ~ ret.located
    /\ ret.value = << BoxA >>

\* the raw box lists of the processed calls among the frames a stream fed:
\* the calls whose number is a multiple of skip_frames
RECURSIVE RawOfProcessed(_, _, _)
RawOfProcessed(frames, self, n) ==
    IF n = 0 THEN << >>
    ELSE IF n % self.skip_frames = 0
      THEN Append(RawOfProcessed(frames, self, n - 1),
                  ScaledFaces(frames[n].face_locations, self.scale))
      ELSE RawOfProcessed(frames, self, n - 1)

\* the last k entries of s
LastOf(s, k) == SubSeq(s, Len(s) - k + 1, Len(s))

\* C15: after every detect call of a detector with smoothing_window W >= 1,
\* detection_history holds, in arrival order, the raw box lists of the most
\* recent min(p, W) processed calls, p being the number of processed calls:
\* never more than W entries, one entry for each processed call and none for
\* a skipped one, the oldest evicted first, and never a smoothed list.
C15_HistoryIsLastRawDetections ==
    \A stream \in DOMAIN detectors :
        LET self == detectors[stream]
            raw == RawOfProcessed(fed[stream], self, Len(fed[stream]))
        IN  /\ Len(self.detection_history) = Min(Len(raw), self.smoothing_window)
            /\ self.detection_history = LastOf(raw, Min(Len(raw), self.smoothing_window))

\* window 2, every call processed: of the frames A, Near, A, A the history
\* keeps the raw lists of the last two, while the list returned for the
\* third was smoothed
C15_Witness ==
    /\ detectors[1].skip_frames = 1
    /\ detectors[1].smoothing_window = 2
    /\ detectors[1].frame_count = 3
    /\ detectors[1].detection_history = << << BoxNear >>, << BoxA >> >>
    /\ detectors[1].cached_faces = << << 1, 0, 20, 26 >> >>

\* C16: when face localization raises during a detect call, detect returns
\* the previously cached list (the empty list if nothing was cached) and
\* leaves cached_faces and detection_history unchanged.
C16_BackendErrorReturnsCache ==
    [][(lastCall' = "detect" /\ BackendRaises(arg'.frame, "face_locations")) =>
         LET self == detectors[arg'.stream]
             after == detectors'[arg'.stream]
         IN  /\ "raised" \notin DOMAIN ret'
             /\ ret'.value = self.cached_faces
             /\ after.cached_faces = self.cached_faces
             /\ after.detection_history = self.detection_history]_vars

\* C17: on a freshly constructed FaceDetector the first detect call is a
\* processed call (it performs localization and fills the cache), whatever
\* skip_frames is; with skip_frames = 2 the second call is the skipped one
\* and returns the first call's result.
C17_FirstCallIsProcessed ==
    [][lastCall' = "detect" =>
         LET self == detectors[arg'.stream]
         IN  /\ self.frame_count = 0 => ret'.located
             /\ (self.frame_count = 1 /\ self.skip_frames = 2) =>
                  ~ ret'.located /\ ret'.value = ret.value]_vars

\* a stream running alone: a detector constructed as gen_frames constructs
\* it, given the first n of the frames in order; [self, outcome] after the
\* n-th call
RECURSIVE RunAlone(_, _)
RunAlone(frames, n) ==
    IF n = 0
      THEN [self |-> NewDetector(STREAM_SKIP_FRAMES, STREAM_SMOOTHING_WINDOW),
            outcome |-> None]
      ELSE LET r == detect(RunAlone(frames, n - 1).self, frames[n])
           IN  [self |-> r.self, outcome |-> Outcome(r)]

\* C20: each recognition stream constructs its own FaceDetector: for any
\* interleaving of the detect calls of the active streams, every call of a
\* stream returns what the same call returns when the stream runs alone on
\* the frames it read, and leaves the stream's detector as the run alone
\* leaves it; the call changes no other stream's frame_count, cached_faces
\* or detection_history.
C20_StreamsDoNotInterfere ==
    [][lastCall' = "detect" =>
         LET stream == arg'.stream
             alone == RunAlone(fed'[stream], Len(fed'[stream]))
         IN  /\ ret' = alone.outcome
             /\ stream \in DOMAIN detectors'
             /\ detectors'[stream] = alone.self
             /\ \A other \in DOMAIN fed' \ {stream} :
                   /\ other \in DOMAIN detectors /\ other \in DOMAIN detectors'
                   /\ detectors'[other] = detectors[other]]_vars

\* stream 1 saw BoxA twice, stream 2 saw BoxNear and then BoxA: stream 2 is
\* returned the mean of its own two frames
C20_Witness ==
    /\ lastCall = "detect"
    /\ arg.stream = 2
    /\ DOMAIN fed = {1, 2}
    /\ Len(fed[1]) = 2
    /\ detectors[1].detection_history = << << BoxA >>, << BoxA >> >>
    /\ detectors[2].detection_history = << << BoxNear >>, << BoxA >> >>
    /\ ret.value = << << 1, 0, 20, 26 >> >>

\* C19: no GuidedFaceCapture is fed frames by two enrollment streams that
\* are active at the same time: whatever the order of the video-feed
\* requests (two of the same user id, or both of 'default', included), two
\* active streams never hold the same capture session.
C19_NoSharedCaptureSession ==
    \A s \in DOMAIN feeds, t \in DOMAIN feeds : s # t => feeds[s] # feeds[t]

\* C21: the status returned by process_frame describes the session as it is
\* when the call returns: the stage name and stage_index are those of the
\* session's current stage, progress is (sum of frames_captured, stages *
\* frames_per_pose) and is_complete is the completed flag, also on the call
\* whose accepted sample advances the stage or completes the capture.
C21_StatusDescribesSessionAtReturn ==
    (lastCall = "process_frame" /\ "stage" \in DOMAIN ret) =>
        /\ ret.stage = STAGES[get_current_stage(Self) + 1].name
        /\ ret.stage_index = current_stage_index
        /\ ret.progress = Progress(Self)
        /\ ret.is_complete = completed

\* every stage holds between 0 and frames_per_pose frames, the stages before
\* the current one are full and the stages after it are empty
StagesFillInOrder ==
    \A i \in StageIndexes :
        /\ stages[i] \in 0 .. frames_per_pose
        /\ i < current_stage_index => stages[i] = frames_per_pose
        /\ i > current_stage_index => stages[i] = 0

\* C22: under process_frame and reset calls every frames_captured starts at
\* 0, never decreases except on reset, never exceeds frames_per_pose, and the
\* stages fill in order: the stages before current_stage_index hold exactly
\* frames_per_pose, the stages after it hold 0.
C22_StageCountersFillInOrder ==
    /\ (lastCall = "__init__" => \A i \in StageIndexes : stages[i] = 0)
    /\ StagesFillInOrder
    /\ [][/\ StagesFillInOrder'
          /\ lastCall' # "reset" => \A i \in StageIndexes : stages'[i] >= stages[i]
          /\ lastCall' = "reset" => \A i \in StageIndexes : stages'[i] = 0]_vars

\* a sample was accepted into a later stage of a session of several frames
\* per pose, the earlier stages full and the later ones empty
C22_Witness ==
    /\ lastCall = "process_frame"
    /\ frames_per_pose >= 2
    /\ current_stage_index = 2
    /\ stages[1] = frames_per_pose
    /\ stages[2] = 1
    /\ stages[3] = 0

\* C29: under process_frame and reset calls the number of stored encodings is
\* the sum of the stages' frames_captured and at most stages *
\* frames_per_pose; a completed session holds exactly stages *
\* frames_per_pose encodings and the reported progress never exceeds
\* needed/needed.
C29_EncodingsMatchStageCounters ==
    /\ Len(encodings) = SumStages(stages, NumStages)
    /\ Len(encodings) <= NumStages * frames_per_pose
    /\ completed => Len(encodings) = NumStages * frames_per_pose
    /\ (lastCall = "process_frame" /\ "progress" \in DOMAIN ret) =>
          /\ ret.progress[1] <= ret.progress[2]
          /\ ret.progress[2] = NumStages * frames_per_pose

\* the call that completes a session of several frames per pose
C29_Witness ==
    /\ lastCall = "process_frame"
    /\ completed
    /\ frames_per_pose >= 2
    /\ ret.is_complete
    /\ Len(encodings) = NumStages * frames_per_pose

\* the corrective moves the claim names for a box <<x, y, w, h>>: the centre
\* (x + w/2, y + h/2) against 20% and 80% of the frame's width and height
CorrectiveMoves(face_box, frame_width, frame_height) ==
    LET twiceCentreX == 2 * face_box[1] + face_box[3]
        twiceCentreY == 2 * face_box[2] + face_box[4]
    IN  (IF 10 * twiceCentreX < 4 * frame_width THEN {"Move to the right"} ELSE {})
        \cup (IF 10 * twiceCentreX > 16 * frame_width THEN {"Move to the left"} ELSE {})
        \cup (IF 10 * twiceCentreY < 4 * frame_height THEN {"Move down"} ELSE {})
        \cup (IF 10 * twiceCentreY > 16 * frame_height THEN {"Move up"} ELSE {})

\* C23: validate_face_position rejects with 'Move closer to the camera' every
\* box narrower than 0.15 of the frame width, wherever it lies; otherwise it
\* rejects exactly when the centre is outside the central 60% of the frame,
\* with the message of a corrective move that applies; a box exactly centred
\* in the frame and at least 15% wide passes.
C23_PositionGate ==
    lastCall = "validate_face_position" =>
        LET box == arg.face_box
            moves == CorrectiveMoves(box, arg.frame_width, arg.frame_height)
        IN  IF 100 * box[3] < 15 * arg.frame_width
              THEN ret = [is_valid |-> FALSE, message |-> "Move closer to the camera"]
              ELSE /\ ret.is_valid <=> moves = {}
                   /\ ~ ret.is_valid => ret.message \in moves
                   /\ (2 * box[1] + box[3] = arg.frame_width
                       /\ 2 * box[2] + box[4] = arg.frame_height) => ret.is_valid

\* a box narrower than 15% of the frame whose centre is also left of 20% of
\* the width was told to move closer
C23_Witness ==
    /\ lastCall = "validate_face_position"
    /\ 100 * arg.face_box[3] < 15 * arg.frame_width
    /\ "Move to the right" \in CorrectiveMoves(arg.face_box, arg.frame_width,
                                               arg.frame_height)
    /\ ret.message = "Move closer to the camera"

\* C27: the GuidedFaceCapture object an active enrollment stream feeds is the
\* object the status and encoding endpoints read for the stream's user, the
\* one registered in _enrollment_captures.  An object is registered only
\* under the user whose request created it, so the stream's object is the
\* one the endpoints read exactly when it is registered at all.
C27_StreamFeedsRegisteredSession ==
    \A stream \in DOMAIN feeds :
        \E user_id \in DOMAIN enrollment_captures :
            enrollment_captures[user_id] = feeds[stream]

\* the ids of the active class sessions of a user
ActiveSessionIds(table, user_id) ==
    { i \in RowIds(table) : table[i].is_active = 1 /\ table[i].user_id = user_id }

\* C24: after any create_session, end_session and delete_session calls every
\* user has at most one class session with is_active = 1; create_session
\* deactivates the user's previously active session, leaves the other users'
\* sessions untouched and makes the new session the one get_active_session
\* returns for the user; after end_session(id) that session is not returned
\* as active.
C24_OneActiveSessionPerUser ==
    /\ \A user_id \in Lecturers :
          Cardinality(ActiveSessionIds(class_sessions, user_id)) <= 1
    /\ [][/\ lastCall' = "start_session_logic" =>
                /\ \A i \in RowIds(class_sessions) :
                      IF class_sessions[i].user_id = arg'.user_id
                        THEN class_sessions'[i].is_active = 0
                        ELSE class_sessions'[i] = class_sessions[i]
                /\ get_active_session(class_sessions', arg'.user_id, "")
                      = { class_sessions'[ret'.session_id] }
                /\ get_active_session(class_sessions', arg'.user_id, arg'.course_code)
                      = { class_sessions'[ret'.session_id] }
          /\ (lastCall' = "end_session_logic" /\ ret'.status = 200) =>
                \A user_id \in Lecturers :
                    arg'.session_id \notin ActiveSessionIds(class_sessions', user_id)
         ]_vars

\* a user started a session while holding an active one, another user's
\* session being active
C24_Witness ==
    /\ lastCall = "start_session_logic"
    /\ \E i \in RowIds(class_sessions), j \in RowIds(class_sessions) :
          /\ class_sessions[i].user_id = arg.user_id
          /\ class_sessions[i].is_active = 0
          /\ class_sessions[j].user_id # arg.user_id
          /\ class_sessions[j].is_active = 1

\* the attendance rows of a student in a session
RowsOf(rows, session_id, student_id) ==
    { i \in RowIds(rows) : /\ rows[i].session_id = session_id
                           /\ rows[i].student_id = student_id }

\* C25: while a class session is active for the course there is at most one
\* attendance row per (session_id, student_id): record_attendance for a
\* student already recorded in the session returns None and inserts
\* nothing.
C25_OneRowPerSessionAndStudent ==
    /\ \A i \in RowIds(attendance) :
          RowsOf(attendance, attendance[i].session_id, attendance[i].student_id) = {i}
    /\ [][(lastCall' = "gen_frames" /\ ret'.recorded) =>
             IF RowsOf(attendance, ret'.session_id, arg'.student_id) # {}
               THEN ret'.value = None /\ attendance' = attendance
               ELSE /\ ret'.value # None
                    /\ RowsOf(attendance', ret'.session_id, arg'.student_id)
                          = { ret'.value.lastrowid }
         ]_vars

\* the recognition loop saw again a student it had recorded in the session
C25_Witness ==
    /\ lastCall = "gen_frames"
    /\ ret.recorded
    /\ ret.value = None
    /\ RowsOf(attendance, ret.session_id, arg.student_id) # {}

\* C26: end_session_logic answers 404 when the session id does not exist or
\* the session is already inactive, and then neither stops the camera nor
\* changes a row; it answers 200 and stops the camera only when the call
\* deactivated an active session.
C26_EndSessionOnlyWhenActive ==
    [][(lastCall' = "end_session_logic" /\ arg'.session_id # 0) =>
          IF /\ arg'.session_id \in RowIds(class_sessions)
             /\ class_sessions[arg'.session_id].is_active = 1
            THEN ret'.status = 200 /\ ~ camera'.opened
            ELSE /\ ret'.status = 404
                 /\ camera' = camera
                 /\ class_sessions' = class_sessions
      ]_vars

\* C28: the attendance row written by the recognition stream of a user is
\* linked to that user's own active session, also when another user has an
\* active session with the same course code.
C28_RowLinkedToOwnSession ==
    (lastCall = "gen_frames" /\ ret.recorded /\ ret.value # None) =>
        attendance[ret.value.lastrowid].session_id = ret.active_session

\* C30: when a user ends their class session, a running recognition stream
\* of a different user keeps running and keeps receiving frames.
C30_OtherStreamsKeepRunning ==
    [][\A stream \in DOMAIN video_feeds :
          (/\ lastCall' = "end_session_logic"
           /\ ret'.status = 200
           /\ class_sessions[arg'.session_id].user_id # video_feeds[stream])
          => (stream \in DOMAIN video_feeds' /\ HasFrame(camera'))
      ]_vars

=============================================================================
